---- MODULE Spec2Model ----
(***************************************************************************)
(* Region-based state merging (lib/Core/MergeHandler.cpp) and the call     *)
(* tree of terminated paths (tools/klee/main.cpp).                         *)
(*                                                                         *)
(* Spec      : one merge region of an Executor, driven by the              *)
(*             interpreter's calls and the scheduler's polls.              *)
(* SpecNest  : several regions, opened, released and destroyed.            *)
(* SpecTree  : the CallTree of one KleeHandler, driven by addCallPath.     *)
(*                                                                         *)
(* ExecutionState::steppedInstructions belongs to the interpreter; the     *)
(* handler only reads it, so every read is an input of the operation that  *)
(* makes it.                                                               *)
(***************************************************************************)
EXTENDS Integers, Sequences, FiniteSets, TLC

(***************************************************************************)
(* Bounds of the model.                                                    *)
(***************************************************************************)
NumStates == 3
NumClosePoints == 2
MaxHandlers == 2
MaxInstructions == 2
MaxInCloseMerge == 1
MaxPathLen == 3
MaxPaths == 2
MaxChildren == 3
MaxDumpLen == 2
MaxTests == 2
MaxOpen == 4
MaxNameLen == 3
MaxRangeCalls == 2
MaxSleep == 2
MaxClock == 10

States == 1..NumStates
ClosePoints == 1..NumClosePoints
HandlerIds == 1..MaxHandlers

\* the values of ExecutionState::steppedInstructions
Counters == 0..MaxInstructions

\* "no state": the null ExecutionState* that getPrioritizeState returns
NoState == 0

VARIABLES
  inCloseMerge,         \* Executor::inCloseMerge
  mergeGroups,          \* Executor::mergeGroups, the registry of live handlers
  created,              \* number of MergeHandler objects constructed so far
  openInstruction,      \* MergeHandler::openInstruction, per handler
  openStates,           \* MergeHandler::openStates, per handler
  reachedMergeClose,    \* MergeHandler::reachedMergeClose, per handler
  closedStateCount,     \* MergeHandler::closedStateCount, per handler
  closeMean,            \* MergeHandler::closeMean, per handler
  pauseCalls,           \* Executor::pauseState calls made by each handler
  continueCalls,        \* Executor::continueState calls made by each handler
  terminateCalls,       \* Executor::terminateState calls made by each handler
  destroyed,            \* the handlers whose destructor has run
  exited,               \* the states the interpreter has terminated on its own
  stateCount,           \* the states the interpreter has created so far: 1..stateCount
  insertionOrder,       \* per handler: its open states, oldest addOpenState first
  distanceSum,          \* per handler: the sum of the distanceSum of its closed states
  last                  \* the operation executed last, with the calls it made

VARIABLES
  DumpCallTracePrefixes, \* the command-line option of that name
  DumpCallTraces,        \* the command-line option of that name
  m_callPathIndex,       \* KleeHandler::m_callPathIndex
  children,              \* CallTree::children of every node; node 0 is m_callTree
  tip,                   \* CallTree::tip of every node but the root
  inserted,              \* the paths given to addCallPath, each with the nodes it went through
  grouped                \* the node and the result of the last groupChildren() call

treeVars == <<DumpCallTracePrefixes, DumpCallTraces, m_callPathIndex,
              children, tip, inserted, grouped>>

VARIABLES
  written,               \* the output of the last dump: what was asked and what the file holds
  crashed                \* the process was ended by a fault

outVars == <<written, crashed>>

VARIABLES
  m_callPathPrefixIndex, \* KleeHandler::m_callPathPrefixIndex
  prefixFiles,           \* the call-prefix files written, in the order of their opening
  prefixesSaved          \* main has called dumpCallPathPrefixes()

prefixVars == <<m_callPathPrefixIndex, prefixFiles, prefixesSaved>>

VARIABLES
  level,                 \* the watchdog's escalation level
  measures,              \* what the watchdog has done to the child, in order
  child,                 \* the watched process
  interrupted,           \* the child's static bool interrupted
  theInterpreter,        \* the child's theInterpreter is set
  returned,              \* the value the watchdog's main has returned
  clock,                 \* util::getWallTime(), in seconds since the fork
  nextStep               \* the watchdog's nextStep

watchVars == <<level, measures, child, interrupted, theInterpreter, returned,
               clock, nextStep>>

VARIABLES
  memory,                \* the bytes of the program's object
  symbolics,             \* the klee_make_symbolic calls made
  checks,                \* the klee_check_memory_access calls made
  ended,                 \* the state was ended by an assertion or a memory error
  rangeCall              \* the last klee_make_symbolic_range call and their number

rangeVars == <<memory, symbolics, checks, ended, rangeCall>>

VARIABLES
  options,               \* the command-line options that processTestCase reads
  m_numTotalTests,       \* KleeHandler::m_numTotalTests
  m_numGeneratedTests,   \* KleeHandler::m_numGeneratedTests
  haltExecution,         \* Interpreter::setHaltExecution(true) was called
  test                   \* the last processTestCase call: its inputs, the names and files it made

testVars == <<options, m_numTotalTests, m_numGeneratedTests, haltExecution, test>>

mhVars == <<inCloseMerge, mergeGroups, created,
            openInstruction, openStates, reachedMergeClose, closedStateCount,
            closeMean, pauseCalls, continueCalls, terminateCalls, destroyed,
            exited, stateCount, insertionOrder, distanceSum, last>>

(***************************************************************************)
(* Doubles.  A finite double is kept as an exact fraction num/den in       *)
(* lowest terms (rounding of finite means is not modelled); the two other  *)
(* classes are the ones an indeterminate bit pattern can fall into: a NaN  *)
(* (or infinity), and a finite value so large that a distance is absorbed  *)
(* when added to it.                                                       *)
(***************************************************************************)
RECURSIVE GCD(_, _)
GCD(a, b) == IF b = 0 THEN a ELSE GCD(b, a % b)

Abs(x) == IF x < 0 THEN -x ELSE x

Fin(n, d) ==
  LET g == GCD(Abs(n), d)
  IN  [k |-> "fin", num |-> n \div g, den |-> d \div g]

Zero == Fin(0, 1)
NaN == [k |-> "nan", num |-> 0, den |-> 1]
Huge == [k |-> "huge", num |-> 0, den |-> 1]

\* A double member that no constructor initializer and no assignment has
\* written, and the values its first read can yield.
Uninitialized == [k |-> "uninitialized", num |-> 0, den |-> 1]
Indeterminate == {Zero, Huge, NaN}

(***************************************************************************)
(* Sequences.                                                              *)
(***************************************************************************)
Range(s) == {s[i] : i \in 1..Len(s)}

\* std::find: the index of the first occurrence of x in s, 0 for end()
RECURSIVE FindFrom(_, _, _)
FindFrom(s, x, i) ==
  IF i > Len(s) THEN 0
  ELSE IF s[i] = x THEN i
  ELSE FindFrom(s, x, i + 1)

Find(s, x) == FindFrom(s, x, 1)

\* s without its first occurrence of x, the order of the others kept
Without(s, x) ==
  LET i == Find(s, x)
  IN  IF i = 0 THEN s ELSE SubSeq(s, 1, i - 1) \o SubSeq(s, i + 1, Len(s))

\* std::swap(*it, v.back()); v.pop_back();  with it = v.begin() + (i - 1)
SwapAndPop(s, i) ==
  SubSeq([s EXCEPT ![i] = s[Len(s)]], 1, Len(s) - 1)

RECURSIVE SumOver(_, _)
SumOver(f, S) ==
  IF S = {} THEN 0
  ELSE LET x == CHOOSE y \in S : TRUE
       IN  f[x] + SumOver(f, S \ {x})

(***************************************************************************)
(* The interpreter's view of a state, as far as the handlers' calls        *)
(* determine it.                                                           *)
(***************************************************************************)
Live(h) == h \in 1..created /\ h \notin destroyed

Terminated(s) == \E h \in HandlerIds : terminateCalls[h][s] > 0

Paused(s) == \E h \in HandlerIds : pauseCalls[h][s] > continueCalls[h][s]

Running(s) ==
  /\ s \in 1..stateCount
  /\ ~Terminated(s)
  /\ ~Paused(s)
  /\ s \notin exited

\* the states held in the buckets of handler h
Bucketed(h) ==
  UNION {Range(reachedMergeClose[h][mp]) : mp \in DOMAIN reachedMergeClose[h]}

\* the state the next fork creates
Fresh(s) == s = stateCount + 1

(***************************************************************************)
(* MergeHandler: the statistics.                                           *)
(***************************************************************************)
getMean(h) == IF closedStateCount[h] = 0 THEN Zero ELSE closeMean[h]

\* es->steppedInstructions - openInstruction, stepped being the value read
\* from the counter of es.  The states of a handler are the opening state
\* and its descendants, whose counters are never below openInstruction: the
\* unsigned difference does not wrap.
getInstrDistance(h, stepped) == stepped - openInstruction[h]

\* the counter values a state of handler h can be read with
CountersOf(h) == {c \in Counters : c >= openInstruction[h]}

\* the values a read of the double m can yield
ReadDouble(m) == IF m = Uninitialized THEN Indeterminate ELSE {m}

\* closeMean += (static_cast<double>(dist) - closeMean) / closedStateCount,
\* m being the value read from closeMean
MeanUpdate(m, dist, count) ==
  IF m.k = "nan" THEN NaN
  ELSE IF m.k = "huge" THEN (IF count = 1 THEN Zero ELSE Huge)
  ELSE Fin(m.num * count + (dist * m.den - m.num), m.den * count)

\* the comparison written with <= instead of <
LessThanTwice_OrEqual(dist, m) ==
  IF m.k = "nan" THEN FALSE
  ELSE IF m.k = "huge" THEN TRUE
  ELSE m.k = "fin" /\ dist * m.den <= 2 * m.num

\* dist < 2 * m, the comparison made in double
LessThanTwice(dist, m) ==
  IF m.k = "nan" THEN FALSE
  ELSE IF m.k = "huge" THEN TRUE
  ELSE m.k = "fin" /\ dist * m.den < 2 * m.num

(***************************************************************************)
(* MergeHandler::getPrioritizeState                                        *)
(***************************************************************************)
\* stepped: the counter of every open state, as the call reads it
Qualifies(h, s, stepped) ==
  /\ s \notin inCloseMerge
  /\ LessThanTwice(getInstrDistance(h, stepped[s]), getMean(h))

RECURSIVE PrioritizeFrom(_, _, _)
PrioritizeFrom(h, i, stepped) ==
  IF i > Len(openStates[h]) THEN NoState
  ELSE IF Qualifies(h, openStates[h][i], stepped) THEN openStates[h][i]
  ELSE PrioritizeFrom(h, i + 1, stepped)

getPrioritizeState(h, stepped) == PrioritizeFrom(h, 1, stepped)

\* removeOpenState erasing the element and keeping the order of the rest
removeOpenState_Erase(open, es) == Without(open, es)

\* removeOpenState popping the back without the swap
removeOpenState_PopBack(open, es) == SubSeq(open, 1, Len(open) - 1)

\* removeOpenState removing every occurrence of the state
removeOpenState_All(open, es) == SelectSeq(open, LAMBDA x : x # es)

\* assert(it != openStates.end()), line 67, fails
NotOpen(open, es) == Find(open, es) = 0

(***************************************************************************)
(* MergeHandler::removeOpenState, as a function of the open sequence.      *)
(* The caller guarantees es is present (asserted).                         *)
(***************************************************************************)
removeOpenState(open, es) == SwapAndPop(open, Find(open, es))

\* the merge loop asking the newest peer first: the index of the last
\* peer in cpv whose merge accepts the arrival, 0 if none
RECURSIVE TryMerge_Newest(_, _, _)
TryMerge_Newest(cpv, acc, i) ==
  IF i > Len(cpv) THEN 0
  ELSE LET later == TryMerge_Newest(cpv, acc, i + 1)
       IN  IF later # 0 THEN later
           ELSE IF cpv[i] \in acc THEN i ELSE 0

\* the merge loop of addClosedState: the index of the first peer in cpv
\* whose merge accepts the arrival (acc: the peers that accept), 0 if none
RECURSIVE TryMerge(_, _, _)
TryMerge(cpv, acc, i) ==
  IF i > Len(cpv) THEN 0
  ELSE IF cpv[i] \in acc THEN i
  ELSE TryMerge(cpv, acc, i + 1)

\* releaseStates continuing only the oldest state of every bucket
RECURSIVE ReleaseCalls_FirstOnly(_, _)
ReleaseCalls_FirstOnly(rmc, keys) ==
  IF keys = {} THEN <<>>
  ELSE LET mp == CHOOSE k \in keys : \A j \in keys : k <= j
       IN  << <<"continueState", rmc[mp][1]>> >>
             \o ReleaseCalls_FirstOnly(rmc, keys \ {mp})

\* for every bucket in key order, for every state in it: continueState
RECURSIVE ReleaseCalls(_, _)
ReleaseCalls(rmc, keys) ==
  IF keys = {} THEN <<>>
  ELSE LET mp == CHOOSE k \in keys : \A j \in keys : k <= j
       IN  [i \in 1..Len(rmc[mp]) |-> <<"continueState", rmc[mp][i]>>]
             \o ReleaseCalls(rmc, keys \ {mp})

CountCalls(calls, name, s) ==
  Cardinality({i \in 1..Len(calls) : calls[i] = <<name, s>>})

NoReads == [s \in States |-> 0]

Idle(op) ==
  [op |-> op, h |-> 0, es |-> NoState, mp |-> 0, acc |-> {},
   stepped |-> NoReads, calls |-> <<>>, attempts |-> <<>>, ret |-> NoState]

\* the calls of one operation of handler h, added to the running counts
Bump(counter, h, calls, name) ==
  [counter EXCEPT ![h] =
     [s \in States |-> counter[h][s] + CountCalls(calls, name, s)]]

\* addClosedState without the mergedSuccessful flag: an arrival that was
\* merged and terminated is pushed to the bucket and paused as well
ClosedStateEffect_NoFlag(rmc, es, mp, acc) ==
  IF mp \notin DOMAIN rmc
  THEN [rmc |-> (mp :> <<es>>) @@ rmc,
        calls |-> << <<"pauseState", es>> >>,
        attempts |-> <<>>]
  ELSE LET cpv == rmc[mp]
           idx == TryMerge(cpv, acc, 1)
       IN  [rmc |-> [rmc EXCEPT ![mp] = Append(cpv, es)],
            calls |-> (IF idx # 0 THEN << <<"terminateState", es>> >> ELSE <<>>)
                        \o << <<"pauseState", es>> >>,
            attempts |-> IF idx # 0 THEN SubSeq(cpv, 1, idx) ELSE cpv]

\* addClosedState terminating the accepting peer instead of the arrival
ClosedStateEffect_TerminatePeer(rmc, es, mp, acc) ==
  IF mp \notin DOMAIN rmc
  THEN [rmc |-> (mp :> <<es>>) @@ rmc,
        calls |-> << <<"pauseState", es>> >>,
        attempts |-> <<>>]
  ELSE LET cpv == rmc[mp]
           idx == TryMerge(cpv, acc, 1)
       IN  IF idx # 0
           THEN [rmc |-> rmc,
                 calls |-> << <<"terminateState", cpv[idx]>> >>,
                 attempts |-> SubSeq(cpv, 1, idx)]
           ELSE [rmc |-> [rmc EXCEPT ![mp] = Append(cpv, es)],
                 calls |-> << <<"pauseState", es>> >>,
                 attempts |-> cpv]

\* the states of all buckets, in key order
RECURSIVE AllPeers(_, _)
AllPeers(rmc, keys) ==
  IF keys = {} THEN <<>>
  ELSE LET mp == CHOOSE k \in keys : \A j \in keys : k <= j
       IN  rmc[mp] \o AllPeers(rmc, keys \ {mp})

\* addClosedState trying to merge the arrival with the states of every
\* close point
ClosedStateEffect_AllPoints(rmc, es, mp, acc) ==
  LET all == AllPeers(rmc, DOMAIN rmc)
      idx == TryMerge(all, acc, 1)
  IN  IF idx # 0
      THEN [rmc |-> rmc,
            calls |-> << <<"terminateState", es>> >>,
            attempts |-> SubSeq(all, 1, idx)]
      ELSE [rmc |-> IF mp \in DOMAIN rmc
                    THEN [rmc EXCEPT ![mp] = Append(@, es)]
                    ELSE (mp :> <<es>>) @@ rmc,
            calls |-> << <<"pauseState", es>> >>,
            attempts |-> all]

\* addClosedState putting a rejected arrival in front of its peers
ClosedStateEffect_Prepend(rmc, es, mp, acc) ==
  IF mp \notin DOMAIN rmc
  THEN [rmc |-> (mp :> <<es>>) @@ rmc,
        calls |-> << <<"pauseState", es>> >>,
        attempts |-> <<>>]
  ELSE LET cpv == rmc[mp]
           idx == TryMerge(cpv, acc, 1)
       IN  IF idx # 0
           THEN [rmc |-> rmc,
                 calls |-> << <<"terminateState", es>> >>,
                 attempts |-> SubSeq(cpv, 1, idx)]
           ELSE [rmc |-> [rmc EXCEPT ![mp] = <<es>> \o cpv],
                 calls |-> << <<"pauseState", es>> >>,
                 attempts |-> cpv]

(***************************************************************************)
(* MergeHandler::addClosedState, lines 86-110: what the arrival of es at   *)
(* the close point mp does to the buckets rmc, the Executor calls made and *)
(* the peers whose merge was attempted, in order.                          *)
(***************************************************************************)
ClosedStateEffect(rmc, es, mp, acc) ==
  IF mp \notin DOMAIN rmc
  THEN [rmc |-> (mp :> <<es>>) @@ rmc,
        calls |-> << <<"pauseState", es>> >>,
        attempts |-> <<>>]
  ELSE LET cpv == rmc[mp]
           idx == TryMerge(cpv, acc, 1)
       IN  IF idx # 0
           THEN [rmc |-> rmc,
                 calls |-> << <<"terminateState", es>> >>,
                 attempts |-> SubSeq(cpv, 1, idx)]
           ELSE [rmc |-> [rmc EXCEPT ![mp] = Append(cpv, es)],
                 calls |-> << <<"pauseState", es>> >>,
                 attempts |-> cpv]

\* the empty std::map
EmptyMap == <<>>

(***************************************************************************)
(* Initial state: an Executor with the program's initial state and no      *)
(* merge handler.                                                          *)
(***************************************************************************)
NoCalls == [h \in HandlerIds |-> [s \in States |-> 0]]

MhInit ==
  /\ inCloseMerge = {}
  /\ mergeGroups = <<>>
  /\ created = 0
  /\ openInstruction = [h \in HandlerIds |-> 0]
  /\ openStates = [h \in HandlerIds |-> <<>>]
  /\ reachedMergeClose = [h \in HandlerIds |-> EmptyMap]
  /\ closedStateCount = [h \in HandlerIds |-> 0]
  /\ closeMean = [h \in HandlerIds |-> Zero]
  /\ pauseCalls = NoCalls
  /\ continueCalls = NoCalls
  /\ terminateCalls = NoCalls
  /\ destroyed = {}
  /\ exited = {}
  /\ stateCount = 1
  /\ insertionOrder = [h \in HandlerIds |-> <<>>]
  /\ distanceSum = [h \in HandlerIds |-> 0]
  /\ last = Idle("none")

(***************************************************************************)
(* Executor::inCloseMerge: the interpreter marks a state of a region as    *)
(* entering klee_close_merge; MergeHandler::removeFromCloseMergeSet erases it.      *)
(***************************************************************************)
EnterCloseMerge(s) ==
  /\ Running(s)
  /\ s \notin inCloseMerge
  /\ \E h \in HandlerIds : Live(h) /\ s \in Range(openStates[h])
  /\ Cardinality(inCloseMerge) < MaxInCloseMerge
  /\ inCloseMerge' = inCloseMerge \cup {s}
  /\ last' = Idle("none")
  /\ UNCHANGED <<mergeGroups, created, openInstruction,
                 openStates, reachedMergeClose, closedStateCount, closeMean,
                 pauseCalls, continueCalls, terminateCalls, destroyed, exited, stateCount,
                 insertionOrder, distanceSum>>

removeFromCloseMergeSet(s) ==
  /\ s \in inCloseMerge
  /\ inCloseMerge' = inCloseMerge \ {s}
  /\ last' = Idle("none")
  /\ UNCHANGED <<mergeGroups, created, openInstruction,
                 openStates, reachedMergeClose, closedStateCount, closeMean,
                 pauseCalls, continueCalls, terminateCalls, destroyed, exited, stateCount,
                 insertionOrder, distanceSum>>

\* a constructor that takes the opening state out of every other handler
CtorOpenStates_Exclusive(open, h, es) ==
  [g \in DOMAIN open |->
     IF g = h THEN Append(open[g], es) ELSE Without(open[g], es)]

\* the constructor's addOpenState(es) on the new handler h
CtorOpenStates(open, h, es) == [open EXCEPT ![h] = Append(@, es)]

(***************************************************************************)
(* MergeHandler::MergeHandler(executor, es): klee_open_merge in state es,  *)
(* whose counter reads stepped.  closeMean has no initializer.             *)
(***************************************************************************)
Construct(es, stepped) ==
  /\ Running(es)
  /\ created < MaxHandlers
  /\ LET h == created + 1
     IN  /\ created' = h
         /\ openInstruction' = [openInstruction EXCEPT ![h] = stepped]
         /\ closedStateCount' = [closedStateCount EXCEPT ![h] = 0]
         /\ closeMean' = [closeMean EXCEPT ![h] = Uninitialized]
         /\ mergeGroups' = Append(mergeGroups, h)
         /\ openStates' = CtorOpenStates(openStates, h, es)
         /\ insertionOrder' = [insertionOrder EXCEPT ![h] = Append(@, es)]
         /\ last' = [Idle("construct") EXCEPT !.h = h, !.es = es,
                                               !.stepped[es] = stepped]
  /\ UNCHANGED <<inCloseMerge, reachedMergeClose,
                 pauseCalls, continueCalls, terminateCalls, destroyed, exited, stateCount,
                 distanceSum>>

(***************************************************************************)
(* MergeHandler::addOpenState(es).  The interpreter forks the running      *)
(* state parent, open in h, and adds the new state es, a copy of parent,   *)
(* to the handler.                                                         *)
(***************************************************************************)
addOpenState(h, parent, es) ==
  /\ Live(h)
  /\ Running(parent)
  /\ parent \in Range(openStates[h])
  /\ Fresh(es)
  /\ stateCount' = es
  /\ openStates' = [openStates EXCEPT ![h] = Append(@, es)]
  /\ insertionOrder' = [insertionOrder EXCEPT ![h] = Append(@, es)]
  /\ last' = [Idle("addOpenState") EXCEPT !.h = h, !.es = es]
  /\ UNCHANGED <<inCloseMerge, mergeGroups, created, openInstruction,
                 reachedMergeClose, closedStateCount, closeMean, pauseCalls,
                 continueCalls, terminateCalls, destroyed, exited,
                 distanceSum>>

(***************************************************************************)
(* MergeHandler::addOpenState(es), lines 61-63, called with a state es    *)
(* that is already open in h.                                              *)
(***************************************************************************)
AddOpenStateAgain(h, es) ==
  /\ Live(h)
  /\ es \in Range(openStates[h])
  /\ Len(openStates[h]) < MaxOpen
  /\ openStates' = [openStates EXCEPT ![h] = Append(@, es)]
  /\ insertionOrder' = [insertionOrder EXCEPT ![h] = Append(@, es)]
  /\ last' = [Idle("addOpenState") EXCEPT !.h = h, !.es = es]
  /\ UNCHANGED <<inCloseMerge, mergeGroups, created, openInstruction,
                 reachedMergeClose, closedStateCount, closeMean, pauseCalls,
                 continueCalls, terminateCalls, destroyed, exited, stateCount,
                 distanceSum>>

(***************************************************************************)
(* MergeHandler::removeOpenState(es), called by the interpreter when it    *)
(* terminates the state es, which is open in h.                            *)
(***************************************************************************)
RemoveOpenState(h, es) ==
  /\ Live(h)
  /\ Running(es)
  /\ es \in Range(openStates[h])
  /\ openStates' = [openStates EXCEPT ![h] = removeOpenState(@, es)]
  /\ insertionOrder' = [insertionOrder EXCEPT ![h] = Without(@, es)]
  /\ exited' = exited \cup {es}
  /\ inCloseMerge' = inCloseMerge \ {es}
  /\ last' = [Idle("removeOpenState") EXCEPT !.h = h, !.es = es]
  /\ UNCHANGED <<mergeGroups, created, openInstruction,
                 reachedMergeClose, closedStateCount, closeMean, pauseCalls,
                 continueCalls, terminateCalls, destroyed, stateCount,
                 distanceSum>>

(***************************************************************************)
(* MergeHandler::addClosedState(es, mp): the running state es, open in h,  *)
(* executes klee_close_merge at mp with its counter reading stepped.  acc  *)
(* is the set of peers in the bucket whose merge(es) returns true.         *)
(***************************************************************************)
addClosedState(h, es, mp, acc, stepped) ==
  /\ Live(h)
  /\ Running(es)
  /\ es \in Range(openStates[h])
  /\ LET count == closedStateCount[h] + 1
         dist == getInstrDistance(h, stepped)
         eff == ClosedStateEffect(reachedMergeClose[h], es, mp, acc)
     IN  /\ closedStateCount' = [closedStateCount EXCEPT ![h] = count]
         /\ \E m \in ReadDouble(closeMean[h]) :
              closeMean' = [closeMean EXCEPT ![h] = MeanUpdate(m, dist, count)]
         /\ openStates' = [openStates EXCEPT ![h] = removeOpenState(@, es)]
         /\ insertionOrder' = [insertionOrder EXCEPT ![h] = Without(@, es)]
         /\ reachedMergeClose' = [reachedMergeClose EXCEPT ![h] = eff.rmc]
         /\ pauseCalls' = Bump(pauseCalls, h, eff.calls, "pauseState")
         /\ terminateCalls' = Bump(terminateCalls, h, eff.calls, "terminateState")
         /\ distanceSum' = [distanceSum EXCEPT ![h] = @ + dist]
         /\ last' = [op |-> "addClosedState", h |-> h, es |-> es, mp |-> mp,
                     acc |-> acc, stepped |-> [NoReads EXCEPT ![es] = stepped],
                     calls |-> eff.calls,
                     attempts |-> eff.attempts, ret |-> NoState]
  /\ UNCHANGED <<inCloseMerge, mergeGroups, created,
                 openInstruction, continueCalls, destroyed, exited, stateCount>>

(***************************************************************************)
(* MergeHandler::removeOpenState(es), lines 65-70, called with a state es  *)
(* that is not open in h: the assertion of line 67 ends the process.       *)
(***************************************************************************)
RemoveUnopenedState(h, es) ==
  /\ Live(h)
  /\ es \in 1..stateCount
  /\ NotOpen(openStates[h], es)
  /\ crashed' = TRUE
  /\ last' = [Idle("removeOpenState") EXCEPT !.h = h, !.es = es]
  /\ UNCHANGED <<inCloseMerge, mergeGroups, created, openInstruction, openStates,
                 reachedMergeClose, closedStateCount, closeMean, pauseCalls,
                 continueCalls, terminateCalls, destroyed, exited, stateCount,
                 insertionOrder, distanceSum>>

(***************************************************************************)
(* MergeHandler::addClosedState(es, mp), lines 76-84, called with a state  *)
(* es that is not open in h: the statistics are updated, then the          *)
(* assertion of removeOpenState ends the process.                          *)
(***************************************************************************)
AddUnopenedClosedState(h, es, mp, stepped) ==
  /\ Live(h)
  /\ es \in 1..stateCount
  /\ NotOpen(openStates[h], es)
  /\ LET count == closedStateCount[h] + 1
         dist == getInstrDistance(h, stepped)
     IN  /\ closedStateCount' = [closedStateCount EXCEPT ![h] = count]
         /\ \E m \in ReadDouble(closeMean[h]) :
              closeMean' = [closeMean EXCEPT ![h] = MeanUpdate(m, dist, count)]
         /\ distanceSum' = [distanceSum EXCEPT ![h] = @ + dist]
         /\ last' = [Idle("addClosedState") EXCEPT
                       !.h = h, !.es = es, !.mp = mp, !.stepped[es] = stepped]
  /\ crashed' = TRUE
  /\ UNCHANGED <<inCloseMerge, mergeGroups, created, openInstruction, openStates,
                 reachedMergeClose, pauseCalls, continueCalls, terminateCalls,
                 destroyed, exited, stateCount, insertionOrder>>

\* MergeHandler::hasMergedStates, lines 122-124
hasMergedStates(h) == reachedMergeClose[h] # EmptyMap

\* releaseStates that continues the states and leaves them in the buckets
releaseStates_NoClear(h, op) ==
  LET calls == ReleaseCalls(reachedMergeClose[h], DOMAIN reachedMergeClose[h])
  IN  /\ continueCalls' = Bump(continueCalls, h, calls, "continueState")
      /\ UNCHANGED reachedMergeClose
      /\ last' = [Idle(op) EXCEPT !.h = h, !.calls = calls]

\* releaseStates clearing every bucket instead of the map
releaseStates_KeepKeys(h, op) ==
  LET calls == ReleaseCalls(reachedMergeClose[h], DOMAIN reachedMergeClose[h])
  IN  /\ continueCalls' = Bump(continueCalls, h, calls, "continueState")
      /\ reachedMergeClose' =
           [reachedMergeClose EXCEPT
              ![h] = [mp \in DOMAIN reachedMergeClose[h] |-> <<>>]]
      /\ last' = [Idle(op) EXCEPT !.h = h, !.calls = calls]

(***************************************************************************)
(* MergeHandler::releaseStates.  op names the caller: the interpreter, or  *)
(* the destructor.                                                         *)
(***************************************************************************)
releaseStates(h, op) ==
  LET calls == ReleaseCalls(reachedMergeClose[h], DOMAIN reachedMergeClose[h])
  IN  /\ continueCalls' = Bump(continueCalls, h, calls, "continueState")
      /\ reachedMergeClose' = [reachedMergeClose EXCEPT ![h] = EmptyMap]
      /\ last' = [Idle(op) EXCEPT !.h = h, !.calls = calls]

ReleaseStates(h) ==
  /\ Live(h)
  /\ releaseStates(h, "releaseStates")
  /\ UNCHANGED <<inCloseMerge, mergeGroups, created,
                 openInstruction, openStates, closedStateCount, closeMean,
                 pauseCalls, terminateCalls, destroyed, exited, stateCount, insertionOrder,
                 distanceSum>>

\* a destructor that deregisters the handler and does not call
\* releaseStates
Destroy_NoRelease(h) ==
  /\ Live(h)
  /\ mergeGroups' = SwapAndPop(mergeGroups, Find(mergeGroups, h))
  /\ last' = [Idle("destroy") EXCEPT !.h = h]
  /\ destroyed' = destroyed \cup {h}
  /\ openStates' = [openStates EXCEPT ![h] = <<>>]
  /\ insertionOrder' = [insertionOrder EXCEPT ![h] = <<>>]
  /\ UNCHANGED <<inCloseMerge, created, openInstruction, reachedMergeClose,
                 closedStateCount, closeMean, pauseCalls, continueCalls,
                 terminateCalls, exited, stateCount, distanceSum>>

\* a destructor that pops the last registry entry without the swap
Destroy_PopLast(h) ==
  /\ Live(h)
  /\ mergeGroups' = SubSeq(mergeGroups, 1, Len(mergeGroups) - 1)
  /\ releaseStates(h, "destroy")
  /\ destroyed' = destroyed \cup {h}
  /\ openStates' = [openStates EXCEPT ![h] = <<>>]
  /\ insertionOrder' = [insertionOrder EXCEPT ![h] = <<>>]
  /\ UNCHANGED <<inCloseMerge, created, openInstruction,
                 closedStateCount, closeMean, pauseCalls, terminateCalls,
                 exited, stateCount, distanceSum>>

(***************************************************************************)
(* MergeHandler::~MergeHandler: the last reference to the handler is       *)
(* dropped.                                                                *)
(***************************************************************************)
Destroy(h) ==
  /\ Live(h)
  /\ mergeGroups' = SwapAndPop(mergeGroups, Find(mergeGroups, h))
  /\ releaseStates(h, "destroy")
  /\ destroyed' = destroyed \cup {h}
  /\ openStates' = [openStates EXCEPT ![h] = <<>>]
  /\ insertionOrder' = [insertionOrder EXCEPT ![h] = <<>>]
  /\ UNCHANGED <<inCloseMerge, created, openInstruction,
                 closedStateCount, closeMean, pauseCalls, terminateCalls,
                 exited, stateCount, distanceSum>>

\* a MergeHandler object that is not in Executor::mergeGroups
Stray == MaxHandlers + 1

(***************************************************************************)
(* MergeHandler::~MergeHandler, lines 133-140, run on the handler Stray    *)
(* while other handlers are registered: std::find returns end(), and the   *)
(* swap through it is undefined behaviour; ub is what the build makes of   *)
(* it.  If the process goes on, pop_back drops the last registry entry.    *)
(* Stray holds no merged states, so its releaseStates() makes no call.     *)
(***************************************************************************)
DestroyUnregistered(ub) ==
  /\ mergeGroups # <<>>
  /\ Find(mergeGroups, Stray) = 0
  /\ IF ub = "crash"
     THEN crashed' = TRUE /\ UNCHANGED mergeGroups
     ELSE /\ mergeGroups' = SubSeq(mergeGroups, 1, Len(mergeGroups) - 1)
          /\ UNCHANGED crashed
  /\ last' = [Idle("destroy") EXCEPT !.h = Stray]
  /\ UNCHANGED <<inCloseMerge, created, openInstruction, openStates,
                 reachedMergeClose, closedStateCount, closeMean, pauseCalls,
                 continueCalls, terminateCalls, destroyed, exited, stateCount,
                 insertionOrder, distanceSum>>

(***************************************************************************)
(* The scheduler polls MergeHandler::getPrioritizeState; stepped gives the *)
(* counter of every open state at that moment.                             *)
(***************************************************************************)
PollReads(h) ==
  {f \in [States -> Counters] :
     \A s \in States : IF s \in Range(openStates[h])
                        THEN f[s] \in CountersOf(h)
                        ELSE f[s] = 0}

GetPrioritizeState(h, stepped) ==
  /\ Live(h)
  /\ last' = [Idle("getPrioritizeState") EXCEPT
                 !.h = h, !.stepped = stepped,
                 !.ret = getPrioritizeState(h, stepped)]
  /\ UNCHANGED <<inCloseMerge, mergeGroups, created,
                 openInstruction, openStates, reachedMergeClose,
                 closedStateCount, closeMean, pauseCalls, continueCalls,
                 terminateCalls, destroyed, exited, stateCount, insertionOrder, distanceSum>>

(***************************************************************************)
(* Call records.  A CallInfo is kept by the fields the code of main.cpp    *)
(* reads: the callee, the arguments, the return value and the two          *)
(* contexts.  An expression is a positive number, the null ref<Expr> is 0. *)
(***************************************************************************)
NullExpr == 0

\* a FieldDescr: the pointee of a pointer, or one of its fields
Descr(doIn, doOut, inVal, outVal, fields) ==
  [doTraceValueIn |-> doIn, doTraceValueOut |-> doOut,
   inVal |-> inVal, outVal |-> outVal, fields |-> fields]

\* the pointee of a value that is not traced
NoPointee == Descr(FALSE, FALSE, NullExpr, NullExpr, <<>>)

\* a CallArg or RetVal that is not a pointer
Scalar(expr) ==
  [expr |-> expr, isPtr |-> FALSE, funPtr |-> FALSE, pointee |-> NoPointee]

\* a CallArg or RetVal that points to a traced pointee
Pointer(expr, pointee) ==
  [expr |-> expr, isPtr |-> TRUE, funPtr |-> FALSE, pointee |-> pointee]

\* a call of f with one scalar argument a that returns r (0: nothing)
Call(f, a, r) ==
  [f |-> f, args |-> <<Scalar(a)>>, ret |-> Scalar(r), callContext |-> <<>>,
   returnContext |-> <<>>]

\* two calls of one callee that differ in their argument
CallInfos == {Call("g", 2, 0), Call("g", 3, 0)}

\* CallInfo::eq: structural equality, all fields equal, both contexts
\* included
eq(a, b) ==
  /\ a.f = b.f
  /\ a.args = b.args
  /\ a.ret = b.ret
  /\ a.callContext = b.callContext
  /\ a.returnContext = b.returnContext

\* the traced-field structure of a FieldDescr: the flags, without values
RECURSIVE Shape(_)
Shape(d) ==
  [doTraceValueIn |-> d.doTraceValueIn, doTraceValueOut |-> d.doTraceValueOut,
   fields |-> [i \in 1..Len(d.fields) |-> Shape(d.fields[i])]]

\* what invocation-equivalence compares of a CallArg or RetVal
ValueShape(v) ==
  [isPtr |-> v.isPtr, funPtr |-> v.funPtr, pointee |-> Shape(v.pointee)]

\* CallInfo::sameInvocation: same callee, same isPtr/funPtr shape, same
\* traced-field structure, same callContext; values and returnContext may
\* differ
sameInvocation(a, b) ==
  /\ a.f = b.f
  /\ Len(a.args) = Len(b.args)
  /\ \A i \in 1..Len(a.args) : ValueShape(a.args[i]) = ValueShape(b.args[i])
  /\ ValueShape(a.ret) = ValueShape(b.ret)
  /\ a.callContext = b.callContext

RECURSIVE SeqsUpTo(_, _)
SeqsUpTo(S, n) ==
  IF n = 0 THEN {<<>>}
  ELSE LET shorter == SeqsUpTo(S, n - 1)
       IN  shorter \cup {Append(p, x) : p \in shorter, x \in S}

\* the call paths a terminated state can carry
CallPaths == SeqsUpTo(CallInfos, MaxPathLen)

\* a call record with the given call and return contexts
WithContexts(call, callContext, returnContext) ==
  [call EXCEPT !.callContext = callContext, !.returnContext = returnContext]

\* calls of three invocations: f (with two arguments and two return
\* contexts), g, and f under another call context
GroupCalls ==
  {Call("f", 1, 0), Call("f", 2, 0), Call("g", 1, 0),
   WithContexts(Call("f", 1, 0), <<>>, <<1>>),
   WithContexts(Call("f", 1, 0), <<1>>, <<>>)}

\* calls of two invocations, g with two arguments and f, and the call
\* paths of the states whose prefixes are saved
PrefixCalls == {Call("g", 2, 0), Call("g", 3, 0), Call("f", 1, 0)}
PrefixPaths == SeqsUpTo(PrefixCalls, MaxDumpLen)

Root == 0

\* addCallPath's search that compares the callee only
RECURSIVE FindChild_CalleeOnly(_, _, _, _)
FindChild_CalleeOnly(kids, tips, call, i) ==
  IF i > Len(kids) THEN 0
  ELSE IF tips[kids[i]].call.f = call.f THEN i
  ELSE FindChild_CalleeOnly(kids, tips, call, i + 1)

\* addCallPath's search that never finds a child
RECURSIVE FindChild_Never(_, _, _, _)
FindChild_Never(kids, tips, call, i) == 0

\* the loop of addCallPath, lines 1142-1148: the position of the first
\* child whose tip call is eq to the head of the path, 0 if there is none
RECURSIVE FindChild(_, _, _, _)
FindChild(kids, tips, call, i) ==
  IF i > Len(kids) THEN 0
  ELSE IF eq(tips[kids[i]].call, call) THEN i
  ELSE FindChild(kids, tips, call, i + 1)

\* addCallPath that puts a new child in front of its siblings
RECURSIVE addCallPath_PushFront(_, _, _, _, _)
addCallPath_PushFront(ch, tp, node, path, path_id) ==
  IF path = <<>> THEN [children |-> ch, tip |-> tp, walk |-> <<>>]
  ELSE LET i == FindChild(ch[node], tp, Head(path), 1)
       IN  IF i # 0
           THEN LET r == addCallPath_PushFront(ch, tp, ch[node][i], Tail(path),
                                               path_id)
                IN  [r EXCEPT !.walk = <<ch[node][i]>> \o @]
           ELSE LET n == Len(tp) + 1
                    ch2 == (n :> <<>>) @@ [ch EXCEPT ![node] = <<n>> \o @]
                    tp2 == Append(tp, [call |-> Head(path), path_id |-> path_id])
                    r == addCallPath_PushFront(ch2, tp2, n, Tail(path), path_id)
                IN  [r EXCEPT !.walk = <<n>> \o @]

\* addCallPath that stamps the path id on every node it goes through
RECURSIVE addCallPath_Retag(_, _, _, _, _)
addCallPath_Retag(ch, tp, node, path, path_id) ==
  IF path = <<>> THEN [children |-> ch, tip |-> tp, walk |-> <<>>]
  ELSE LET i == FindChild(ch[node], tp, Head(path), 1)
       IN  IF i # 0
           THEN LET tp1 == [tp EXCEPT ![ch[node][i]].path_id = path_id]
                    r == addCallPath_Retag(ch, tp1, ch[node][i], Tail(path),
                                           path_id)
                IN  [r EXCEPT !.walk = <<ch[node][i]>> \o @]
           ELSE LET n == Len(tp) + 1
                    ch2 == (n :> <<>>) @@ [ch EXCEPT ![node] = Append(@, n)]
                    tp2 == Append(tp, [call |-> Head(path), path_id |-> path_id])
                    r == addCallPath_Retag(ch2, tp2, n, Tail(path), path_id)
                IN  [r EXCEPT !.walk = <<n>> \o @]

\* addCallPath that creates the node of the head but does not descend into
\* it with the rest of the path
RECURSIVE addCallPath_DropTail(_, _, _, _, _)
addCallPath_DropTail(ch, tp, node, path, path_id) ==
  IF path = <<>> THEN [children |-> ch, tip |-> tp, walk |-> <<>>]
  ELSE LET i == FindChild(ch[node], tp, Head(path), 1)
       IN  IF i # 0
           THEN LET r == addCallPath_DropTail(ch, tp, ch[node][i], Tail(path),
                                              path_id)
                IN  [r EXCEPT !.walk = <<ch[node][i]>> \o @]
           ELSE LET n == Len(tp) + 1
                IN  [children |-> (n :> <<>>) @@ [ch EXCEPT ![node] = Append(@, n)],
                     tip |-> Append(tp, [call |-> Head(path), path_id |-> path_id]),
                     walk |-> <<n>>]

(***************************************************************************)
(* CallTree::addCallPath on node, in the tree (ch, tp): the tree after it  *)
(* and the nodes it went through (found or created), in order.             *)
(***************************************************************************)
RECURSIVE addCallPath(_, _, _, _, _)
addCallPath(ch, tp, node, path, path_id) ==
  IF path = <<>> THEN [children |-> ch, tip |-> tp, walk |-> <<>>]
  ELSE LET i == FindChild(ch[node], tp, Head(path), 1)
       IN  IF i # 0
           THEN LET r == addCallPath(ch, tp, ch[node][i], Tail(path), path_id)
                IN  [r EXCEPT !.walk = <<ch[node][i]>> \o @]
           ELSE LET n == Len(tp) + 1
                    ch2 == (n :> <<>>) @@ [ch EXCEPT ![node] = Append(@, n)]
                    tp2 == Append(tp, [call |-> Head(path), path_id |-> path_id])
                    r == addCallPath(ch2, tp2, n, Tail(path), path_id)
                IN  [r EXCEPT !.walk = <<n>> \o @]

\* the inner loop of groupChildren compared on the callee only
RECURSIVE FindGroup_CalleeOnly(_, _, _, _)
FindGroup_CalleeOnly(ret, tips, current, gi) ==
  IF gi > Len(ret) THEN 0
  ELSE IF tips[current].call.f = tips[ret[gi][1]].call.f THEN gi
  ELSE FindGroup_CalleeOnly(ret, tips, current, gi + 1)

\* the inner loop of groupChildren, lines 1161-1167: the position of the
\* first group whose first member is sameInvocation with the tip of the
\* child current, 0 if there is none
RECURSIVE FindGroup(_, _, _, _)
FindGroup(ret, tips, current, gi) ==
  IF gi > Len(ret) THEN 0
  ELSE IF sameInvocation(tips[current].call, tips[ret[gi][1]].call) THEN gi
  ELSE FindGroup(ret, tips, current, gi + 1)

\* the outer loop of groupChildren with groupNotFound never cleared: a
\* child put into a group opens a group of its own as well
RECURSIVE GroupFrom_NoFlag(_, _, _, _)
GroupFrom_NoFlag(kids, tips, ci, ret) ==
  IF ci > Len(kids) THEN ret
  ELSE LET current == kids[ci]
           gi == FindGroup(ret, tips, current, 1)
           put == IF gi # 0 THEN [ret EXCEPT ![gi] = Append(@, current)]
                  ELSE ret
       IN  GroupFrom_NoFlag(kids, tips, ci + 1, Append(put, <<current>>))

\* the outer loop of groupChildren, lines 1158-1172, from child ci on, ret
\* being the groups made so far
RECURSIVE GroupFrom(_, _, _, _)
GroupFrom(kids, tips, ci, ret) ==
  IF ci > Len(kids) THEN ret
  ELSE LET current == kids[ci]
           gi == FindGroup(ret, tips, current, 1)
       IN  IF gi # 0
           THEN GroupFrom(kids, tips, ci + 1,
                          [ret EXCEPT ![gi] = Append(@, current)])
           ELSE GroupFrom(kids, tips, ci + 1, Append(ret, <<current>>))

(***************************************************************************)
(* CallTree::groupChildren on node: the groups, each a sequence of the     *)
(* children whose tips it holds.                                           *)
(***************************************************************************)
groupChildren(ch, tp, node) == GroupFrom(ch[node], tp, 1, <<>>)

\* no groupChildren() call since the last insertion
NoGrouping == [node |-> Root, called |-> FALSE, ret |-> <<>>]

\* a groupChildren that moves the children out of the node
GroupChildren_Consuming(node) ==
  /\ node \in DOMAIN children
  /\ grouped' = [node |-> node, called |-> TRUE,
                 ret |-> groupChildren(children, tip, node)]
  /\ children' = [children EXCEPT ![node] = <<>>]
  /\ UNCHANGED <<DumpCallTracePrefixes, DumpCallTraces, m_callPathIndex,
                 tip, inserted>>

\* the prefix dumper calls groupChildren() on node
GroupChildren(node) ==
  /\ node \in DOMAIN children
  /\ grouped' = [node |-> node, called |-> TRUE,
                 ret |-> groupChildren(children, tip, node)]
  /\ UNCHANGED <<DumpCallTracePrefixes, DumpCallTraces, m_callPathIndex,
                 children, tip, inserted>>

(***************************************************************************)
(* A KleeHandler after construction, with the two options as given on the  *)
(* command line.                                                           *)
(***************************************************************************)
TreeStart(prefixes, traces) ==
  /\ DumpCallTracePrefixes = prefixes
  /\ DumpCallTraces = traces
  /\ m_callPathIndex = 1
  /\ children = (Root :> <<>>)
  /\ tip = <<>>
  /\ inserted = {}
  /\ grouped = NoGrouping


(***************************************************************************)
(* The text written to a stream is a sequence of strings, one for each     *)
(* operand of <<.  A serializer returns the text it wrote before it        *)
(* returned or faulted, with one of three outcomes: "ok" (returned true),  *)
(* "failed" (returned false), "crashed" (the process ended).               *)
(***************************************************************************)
Ok(out) == [st |-> "ok", out |-> out]
Failed(out) == [st |-> "failed", out |-> out]
Crashed(out) == [st |-> "crashed", out |-> out]

\* r, and s after it if r ran to its end
Then(r, s) == IF r.st = "ok" THEN [st |-> s.st, out |-> r.out \o s.out] ELSE r

\* r if c holds, nothing otherwise
When(c, r) == IF c THEN r ELSE Ok(<<>>)

\* what a build can make of the dereference of a null ref<Expr>, or of a
\* write through a null stream: the process ends, or it goes on with
\* whatever it read
UBOutcomes == {"crash", "continue"}

\* the text of whatever is read through a null ref<Expr>
Garbage == "?"

\* file << *e, lines 653, 661, 667
Deref(e, ub) ==
  IF e # NullExpr THEN Ok(<<ToString(e)>>)
  ELSE IF ub = "crash" THEN Crashed(<<>>) ELSE Ok(<<Garbage>>)

\* FieldDescr::name of the i-th field
FieldName(i) == ToString(i)

\* one round of the loop over the fields of an argument pointee, lines
\* 673-689
dumpArgField(i, fd, ub) ==
  Then(Ok(<<"[", FieldName(i), ":">>),
       IF fd.doTraceValueIn \/ fd.doTraceValueOut
       THEN Then(When(fd.doTraceValueIn, Deref(fd.inVal, ub)),
            Then(Ok(<<"->">>),
                 IF fd.doTraceValueOut /\ fd.outVal = NullExpr
                 THEN Failed(<<>>)
                 ELSE Then(When(fd.doTraceValueOut, Deref(fd.outVal, ub)),
                           Ok(<<"]">>))))
       ELSE Ok(<<"(...)]">>))

RECURSIVE dumpArgFields(_, _, _)
dumpArgFields(fields, i, ub) ==
  IF i > Len(fields) THEN Ok(<<>>)
  ELSE Then(dumpArgField(i, fields[i], ub), dumpArgFields(fields, i + 1, ub))

\* the pointee of a pointer argument, lines 656-692
dumpArgPointee(p, ub) ==
  IF p.doTraceValueIn \/ p.doTraceValueOut
  THEN Then(Ok(<<"[">>),
       Then(When(p.doTraceValueIn, Deref(p.inVal, ub)),
            IF p.doTraceValueOut /\ p.outVal = NullExpr
            THEN Failed(<<>>)
            ELSE Then(Ok(<<"->">>),
                 Then(When(p.doTraceValueOut, Deref(p.outVal, ub)),
                 Then(Ok(<<"]">>),
                      dumpArgFields(p.fields, 1, ub))))))
  ELSE Ok(<<"[...]">>)

\* one round of the loop over the arguments, lines 649-699
dumpArg(arg, isLast, ub) ==
  Then(Ok(<<"arg", ":">>),
  Then(Deref(arg.expr, ub),
  Then(IF arg.isPtr
       THEN Then(Ok(<<"&">>),
                 IF ~arg.funPtr THEN dumpArgPointee(arg.pointee, ub)
                 ELSE Ok(<<"fn">>))
       ELSE Ok(<<>>),
       When(~isLast, Ok(<<",">>)))))

RECURSIVE dumpArgs(_, _, _)
dumpArgs(args, i, ub) ==
  IF i > Len(args) THEN Ok(<<>>)
  ELSE Then(dumpArg(args[i], i = Len(args), ub), dumpArgs(args, i + 1, ub))

\* one round of the loop over the fields of the return pointee, lines
\* 712-719
dumpRetField(i, fd, ub) ==
  Then(Ok(<<"[", FieldName(i), ":">>),
       IF fd.doTraceValueOut
       THEN Then(Deref(fd.outVal, ub), Ok(<<"]">>))
       ELSE Ok(<<"(...)]">>))

RECURSIVE dumpRetFields(_, _, _)
dumpRetFields(fields, i, ub) ==
  IF i > Len(fields) THEN Ok(<<>>)
  ELSE Then(dumpRetField(i, fields[i], ub), dumpRetFields(fields, i + 1, ub))

\* the return value, lines 701-727
dumpRet(ret, ub) ==
  IF ret.expr = NullExpr THEN Ok(<<"[]">>)
  ELSE Then(Deref(ret.expr, ub),
       When(ret.isPtr,
            Then(Ok(<<"&">>),
                 IF ~ret.funPtr
                 THEN IF ret.pointee.doTraceValueOut
                      THEN Then(Ok(<<"[">>),
                           Then(Deref(ret.pointee.outVal, ub),
                           Then(Ok(<<"]">>),
                                dumpRetFields(ret.pointee.fields, 1, ub))))
                      ELSE Ok(<<"[...]">>)
                 ELSE Ok(<<"fn">>))))

(***************************************************************************)
(* dumpCallInfo, lines 646-748, for a call without extra pointers.         *)
(***************************************************************************)
dumpCallInfo(ci, ub) ==
  Then(Ok(<<"line", ":", ci.f, "(">>),
  Then(dumpArgs(ci.args, 1, ub),
  Then(Ok(<<") -> ">>),
  Then(dumpRet(ci.ret, ub),
       Ok(<<"\n">>)))))

\* dumpPointeeInSExpr and dumpFieldsInSExpr, lines 753-778
RECURSIVE dumpPointeeInSExpr(_, _)
RECURSIVE dumpFieldsInSExpr(_, _, _)
dumpPointeeInSExpr(pointee, ub) ==
  Then(Ok(<<"((full (">>),
  Then(When(pointee.doTraceValueIn, Deref(pointee.inVal, ub)),
  Then(Ok(<<"))\n (sname (", "))\n", "(break_down (">>),
  Then(dumpFieldsInSExpr(pointee.fields, 1, ub),
       Ok(<<"))", ")">>)))))

dumpFieldsInSExpr(fields, i, ub) ==
  IF i > Len(fields) THEN Ok(<<>>)
  ELSE Then(Ok(<<"\n((fname \"", FieldName(i), "\") (value ">>),
       Then(dumpPointeeInSExpr(fields[i], ub),
       Then(Ok(<<") (addr ", "))">>),
            dumpFieldsInSExpr(fields, i + 1, ub))))

\* dumpPointeeOutSExpr and dumpFieldsOutSExpr, lines 783-810
RECURSIVE dumpPointeeOutSExpr(_, _)
RECURSIVE dumpFieldsOutSExpr(_, _, _)
dumpPointeeOutSExpr(pointee, ub) ==
  Then(Ok(<<"((full (">>),
  Then(When(pointee.doTraceValueOut, Deref(pointee.outVal, ub)),
  Then(Ok(<<"))\n (sname (", "))\n", "(break_down (">>),
  Then(dumpFieldsOutSExpr(pointee.fields, 1, ub),
       Ok(<<"))", ")">>)))))

dumpFieldsOutSExpr(fields, i, ub) ==
  IF i > Len(fields) THEN Ok(<<>>)
  ELSE Then(Ok(<<"\n((fname \"", FieldName(i), "\") (value ">>),
       Then(dumpPointeeOutSExpr(fields[i], ub),
       Then(Ok(<<") (addr ", " ))">>),
            dumpFieldsOutSExpr(fields, i + 1, ub))))

\* dumpCallArgSExpr, lines 812-838
dumpCallArgSExpr(arg, ub) ==
  Then(Ok(<<"\n((aname \"", "arg", "\")\n", "(value ">>),
  Then(Deref(arg.expr, ub),
  Then(Ok(<<")\n", "(ptr ">>),
  Then(IF arg.isPtr
       THEN IF ~arg.funPtr
            THEN IF arg.pointee.doTraceValueIn \/ arg.pointee.doTraceValueOut
                 THEN Then(Ok(<<"(Curioptr\n", "((before ">>),
                      Then(dumpPointeeInSExpr(arg.pointee, ub),
                      Then(Ok(<<")\n", "(after ">>),
                      Then(dumpPointeeOutSExpr(arg.pointee, ub),
                           Ok(<<")))\n">>)))))
                 ELSE Ok(<<"Apathptr">>)
            ELSE Ok(<<"(Funptr \"", "fn", "\")">>)
       ELSE Ok(<<"Nonptr">>),
       Ok(<<"))">>)))))

RECURSIVE dumpCallArgsSExpr(_, _, _)
dumpCallArgsSExpr(args, i, ub) ==
  IF i > Len(args) THEN Ok(<<>>)
  ELSE Then(dumpCallArgSExpr(args[i], ub), dumpCallArgsSExpr(args, i + 1, ub))

\* dumpRetSExpr, lines 840-864
dumpRetSExpr(ret, ub) ==
  IF ret.expr = NullExpr THEN Ok(<<"(ret ())">>)
  ELSE Then(Ok(<<"(ret (((value ">>),
       Then(Deref(ret.expr, ub),
       Then(Ok(<<")\n", "(ptr ">>),
       Then(IF ret.isPtr
            THEN IF ~ret.funPtr
                 THEN IF ret.pointee.doTraceValueIn \/ ret.pointee.doTraceValueOut
                      THEN Then(Ok(<<"(Curioptr ((before ((full ()) (break_down ()) (sname ()))) (after ">>),
                           Then(dumpPointeeOutSExpr(ret.pointee, ub),
                                Ok(<<")))\n">>)))
                      ELSE Ok(<<"Apathptr">>)
                 ELSE Ok(<<"(Funptr \"", "fn", "\")">>)
            ELSE Ok(<<"Nonptr">>),
            Ok(<<"))))\n">>)))))

\* the expressions of a context, each after a line break, lines 913-917
RECURSIVE dumpContext(_, _, _)
dumpContext(context, i, ub) ==
  IF i > Len(context) THEN Ok(<<>>)
  ELSE Then(Ok(<<"\n">>),
       Then(Deref(context[i], ub), dumpContext(context, i + 1, ub)))

(***************************************************************************)
(* dumpCallInfoSExpr, lines 897-927, for a call without extra pointers.    *)
(***************************************************************************)
dumpCallInfoSExpr(ci, ub) ==
  Then(Ok(<<"((fun_name \"", ci.f, "\")\n (args (">>),
  Then(dumpCallArgsSExpr(ci.args, 1, ub),
  Then(Ok(<<"))\n", "(extra_ptrs (", "))\n">>),
  Then(dumpRetSExpr(ci.ret, ub),
  Then(Ok(<<"(call_context (">>),
  Then(dumpContext(ci.callContext, 1, ub),
  Then(Ok(<<"))\n", "(ret_context (">>),
  Then(dumpContext(ci.returnContext, 1, ub),
       Ok(<<")))\n">>)))))))))

\* the outcome of a loop over the calls of a path: st is "crashed" if a
\* serializer faulted, sts holds the outcome of every serializer call made
Walked(st, sts, out) == [st |-> st, sts |-> sts, out |-> out]

\* the loop over the calls of a path, lines 945-950 and 993-998
RECURSIVE dumpCalls(_, _, _)
dumpCalls(path, i, ub) ==
  IF i > Len(path) THEN Walked("ok", <<>>, <<>>)
  ELSE LET r == dumpCallInfo(path[i], ub)
       IN  IF r.st = "ok"
           THEN LET rest == dumpCalls(path, i + 1, ub)
                IN  Walked(rest.st, <<"ok">> \o rest.sts, r.out \o rest.out)
           ELSE Walked(IF r.st = "crashed" THEN "crashed" ELSE "ok",
                       <<r.st>>, r.out)

\* the loop over the constraints of a state, lines 951-954
RECURSIVE dumpConstraints(_, _, _)
dumpConstraints(constraints, i, ub) ==
  IF i > Len(constraints) THEN Ok(<<>>)
  ELSE Then(Deref(constraints[i], ub),
       Then(Ok(<<"\n">>), dumpConstraints(constraints, i + 1, ub)))

\* the output of one dump: the operation, its inputs, the outcome of every
\* serializer call, the text in the file, whether the file was opened and
\* whether a warning was emitted
Output(op, path, constraints, sts, text, opened, warned) ==
  [op |-> op, path |-> path, constraints |-> constraints, sts |-> sts,
   text |-> text, opened |-> opened, warned |-> warned]

NothingWritten == Output("none", <<>>, <<>>, <<>>, <<>>, TRUE, FALSE)

\* the process has written nothing and runs
OutStart ==
  /\ written = NothingWritten
  /\ crashed = FALSE

\* a call with the given arguments and return value
CallOf(f, args, ret) ==
  [f |-> f, args |-> args, ret |-> ret, callContext |-> <<>>, returnContext |-> <<>>]

\* a traced field with in- and out-value
Field(inVal, outVal) == Descr(TRUE, TRUE, inVal, outVal, <<>>)

\* a field of which only the out-value is traced
OutField(outVal) == Descr(FALSE, TRUE, NullExpr, outVal, <<>>)

(***************************************************************************)
(* The calls of the dumped paths: a call of scalars; pointer arguments     *)
(* with a traced pointee and field, with an absent out-value of the        *)
(* pointee, and with an absent out-value of a field; returned pointers     *)
(* with an absent out-value of the pointee, and with an absent out-value   *)
(* of a field.                                                             *)
(***************************************************************************)
DumpCalls ==
  {Call("f", 1, 0),
   CallOf("f", <<Pointer(1, Descr(TRUE, TRUE, 2, 3, <<Field(2, 3)>>)), Scalar(1)>>, Scalar(0)),
   CallOf("f", <<Pointer(1, Descr(TRUE, TRUE, 2, NullExpr, <<>>))>>, Scalar(1)),
   CallOf("f", <<Pointer(1, Descr(TRUE, TRUE, 2, 3, <<Field(2, NullExpr)>>))>>, Scalar(1)),
   CallOf("f", <<Scalar(1)>>, Pointer(1, OutField(NullExpr))),
   CallOf("f", <<Scalar(1)>>, Pointer(1, Descr(FALSE, TRUE, NullExpr, 3, <<OutField(NullExpr)>>)))}

\* the call paths and the path constraints of the dumped states
DumpPaths == SeqsUpTo(DumpCalls, MaxDumpLen)
ConstraintSets == {<<4>>}

(***************************************************************************)
(* KleeHandler::processCallPath for a terminated state with call path      *)
(* path and path constraints constraints, lines 929-955.  opened tells     *)
(* whether openOutputFile gets a stream; ub is what the build makes of a   *)
(* null dereference, should one happen.                                    *)
(***************************************************************************)
processCallPath(path, constraints, opened, ub) ==
  /\ ~crashed
  /\ LET id == m_callPathIndex
         r == addCallPath(children, tip, Root, path, id)
     IN  /\ IF DumpCallTracePrefixes
            THEN /\ children' = r.children
                 /\ tip' = r.tip
                 /\ inserted' = inserted \cup
                                  {[path |-> path, walk |-> r.walk, id |-> id,
                                    n |-> Cardinality(inserted) + 1]}
            ELSE UNCHANGED <<children, tip, inserted>>
         /\ m_callPathIndex' = IF DumpCallTraces THEN id + 1 ELSE id
  /\ grouped' = NoGrouping
  /\ UNCHANGED <<DumpCallTracePrefixes, DumpCallTraces>>
  /\ IF ~DumpCallTraces THEN UNCHANGED outVars
     ELSE LET w == dumpCalls(path, 1, ub)
              tail == Then(Ok(<<";;-- Constraints --\n">>),
                           dumpConstraints(constraints, 1, ub))
          IN  IF ~opened
              THEN \* openOutputFile has warned and returned NULL; the first
                   \* write goes through the null stream
                   /\ written' = Output("processCallPath", path, constraints,
                                        IF ub = "crash" THEN <<>> ELSE w.sts,
                                        <<>>, FALSE, TRUE)
                   /\ crashed' = (ub = "crash")
              ELSE IF w.st = "crashed"
              THEN /\ written' = Output("processCallPath", path, constraints,
                                        w.sts, w.out, TRUE, FALSE)
                   /\ crashed' = TRUE
              ELSE /\ written' = Output("processCallPath", path, constraints,
                                        w.sts, w.out \o tail.out, TRUE, FALSE)
                   /\ crashed' = (tail.st = "crashed")

\* the interpreter hands over a terminated state with call path path and no
\* path constraints; the file opens
ProcessCallPath(path) ==
  /\ m_callPathIndex <= MaxPaths
  /\ Cardinality(inserted) < MaxPaths
  /\ \E ub \in UBOutcomes : processCallPath(path, <<>>, TRUE, ub)

\* a prefix dumper serializes the call ci as an s-expression
DumpCallInfoSExpr(ci, ub) ==
  /\ ~crashed
  /\ LET r == dumpCallInfoSExpr(ci, ub)
     IN  /\ written' = Output("dumpCallInfoSExpr", <<ci>>, <<>>, <<r.st>>,
                              r.out, TRUE, FALSE)
         /\ crashed' = (r.st = "crashed")
  /\ UNCHANGED treeVars


\* a KleeHandler after construction, line 329: no call-prefix file yet
PrefixStart ==
  /\ m_callPathPrefixIndex = 0
  /\ prefixFiles = <<>>
  /\ prefixesSaved = FALSE

\* the prefix dumper that leaves the tip of a child in accumulated_prefix
\* when it goes on to the next child
RECURSIVE dumpCallPrefixesSExpr_NoPop(_, _, _, _)
RECURSIVE ChildPrefixes_NoPop(_, _, _, _, _)
dumpCallPrefixesSExpr_NoPop(ch, tp, node, accumulated_prefix) ==
  LET tipCalls == groupChildren(ch, tp, node)
  IN  [gi \in 1..Len(tipCalls) |->
         [node |-> node, history |-> accumulated_prefix,
          tip_calls |-> [k \in 1..Len(tipCalls[gi]) |-> tp[tipCalls[gi][k]]]]]
        \o ChildPrefixes_NoPop(ch, tp, node, accumulated_prefix, 1)

ChildPrefixes_NoPop(ch, tp, node, accumulated_prefix, ci) ==
  IF ci > Len(ch[node]) THEN <<>>
  ELSE LET pushed == Append(accumulated_prefix, tp[ch[node][ci]].call)
       IN  dumpCallPrefixesSExpr_NoPop(ch, tp, ch[node][ci], pushed)
             \o ChildPrefixes_NoPop(ch, tp, node, pushed, ci + 1)

(***************************************************************************)
(* CallTree::dumpCallPrefixesSExpr on node, lines 1349-1382: the files it  *)
(* asks for, in the order of their opening.  A file is given by the calls  *)
(* serialized into its history list and the tips (path_id and call)        *)
(* serialized into its tip_calls list; node is the node whose children the *)
(* file groups, kept for the statement of properties.                      *)
(***************************************************************************)
RECURSIVE dumpCallPrefixesSExpr(_, _, _, _)
RECURSIVE ChildPrefixes(_, _, _, _, _)
dumpCallPrefixesSExpr(ch, tp, node, accumulated_prefix) ==
  LET tipCalls == groupChildren(ch, tp, node)
  IN  [gi \in 1..Len(tipCalls) |->
         [node |-> node, history |-> accumulated_prefix,
          tip_calls |-> [k \in 1..Len(tipCalls[gi]) |-> tp[tipCalls[gi][k]]]]]
        \o ChildPrefixes(ch, tp, node, accumulated_prefix, 1)

\* the loop over the children, lines 1375-1381, from child ci on
ChildPrefixes(ch, tp, node, accumulated_prefix, ci) ==
  IF ci > Len(ch[node]) THEN <<>>
  ELSE dumpCallPrefixesSExpr(ch, tp, ch[node][ci],
                             Append(accumulated_prefix, tp[ch[node][ci]].call))
         \o ChildPrefixes(ch, tp, node, accumulated_prefix, ci + 1)

\* the calls serialized into a prefix file, in order
FileCalls(file) ==
  file.history \o [k \in 1..Len(file.tip_calls) |-> file.tip_calls[k].call]

\* a serializer faults while the file is written
FileFaults(file, ub) ==
  \E k \in 1..Len(FileCalls(file)) :
    dumpCallInfoSExpr(FileCalls(file)[k], ub).st = "crashed"

\* the position of the first file of files that a serializer faults in, 0
\* if there is none
RECURSIVE FirstFault(_, _, _)
FirstFault(files, i, ub) ==
  IF i > Len(files) THEN 0
  ELSE IF FileFaults(files[i], ub) THEN i
  ELSE FirstFault(files, i + 1, ub)

\* a prefix file as it is left on disk: opened tells whether
\* openNextCallPathPrefixFile got a stream, complete whether the closing
\* parentheses were written
OnDisk(file, id, opened, complete) ==
  [id |-> id, node |-> file.node, history |-> file.history,
   tip_calls |-> file.tip_calls, opened |-> opened, complete |-> complete]

(***************************************************************************)
(* KleeHandler::dumpCallPathPrefixes, lines 964-967, with                  *)
(* openNextCallPathPrefixFile, lines 957-962.  opens tells whether         *)
(* openOutputFile gets streams; ub is what the build makes of a write      *)
(* through a null stream or of a null dereference in a serializer.         *)
(***************************************************************************)
dumpCallPathPrefixes(opens, ub) ==
  /\ ~crashed
  /\ prefixesSaved' = TRUE
  /\ LET files == dumpCallPrefixesSExpr(children, tip, Root, <<>>)
         fault == FirstFault(files, 1, ub)
     IN  IF files = <<>>
         THEN UNCHANGED <<m_callPathPrefixIndex, prefixFiles, crashed>>
         ELSE IF ~opens /\ ub = "crash"
         THEN /\ m_callPathPrefixIndex' = m_callPathPrefixIndex + 1
              /\ prefixFiles' = <<>>
              /\ crashed' = TRUE
         ELSE IF fault # 0
         THEN /\ m_callPathPrefixIndex' = m_callPathPrefixIndex + fault
              /\ prefixFiles' =
                   [i \in 1..fault |->
                      OnDisk(files[i], m_callPathPrefixIndex + i, opens, i < fault)]
              /\ crashed' = TRUE
         ELSE /\ m_callPathPrefixIndex' = m_callPathPrefixIndex + Len(files)
              /\ prefixFiles' =
                   [i \in 1..Len(files) |->
                      OnDisk(files[i], m_callPathPrefixIndex + i, opens, opens)]
              /\ UNCHANGED crashed
  /\ UNCHANGED <<treeVars, written>>

\* main saves the call prefixes after the interpreter has run, lines
\* 2207-2208
DumpCallPathPrefixes ==
  /\ DumpCallTracePrefixes
  /\ ~prefixesSaved
  /\ \E opens \in BOOLEAN, ub \in UBOutcomes : dumpCallPathPrefixes(opens, ub)


(***************************************************************************)
(* The options read by processTestCase, lines 95-133 and 229-232, with     *)
(* m_pathWriter and m_symPathWriter standing for "the writer exists".      *)
(***************************************************************************)
DefaultOptions ==
  [NoOutput |-> FALSE, WriteCVCs |-> FALSE, WriteKQueries |-> FALSE,
   WriteSMT2s |-> FALSE, WriteCov |-> FALSE, WriteTestInfo |-> FALSE,
   OptExitOnError |-> FALSE, m_pathWriter |-> FALSE,
   m_symPathWriter |-> FALSE, StopAfterNTests |-> 0]

BoolOptions ==
  {"NoOutput", "WriteCVCs", "WriteKQueries", "WriteSMT2s", "WriteCov",
   "WriteTestInfo", "OptExitOnError", "m_pathWriter", "m_symPathWriter"}

\* the command lines of the runs: the defaults, one switch set, or a limit
\* of one test
OptionSets ==
  {DefaultOptions} \cup {[DefaultOptions EXCEPT ![o] = TRUE] : o \in BoolOptions}
    \cup {[DefaultOptions EXCEPT !.StopAfterNTests = 1]}

\* no processTestCase call yet
NoTest ==
  [op |-> "none", id |-> 0, out |-> <<>>, names |-> <<>>, success |-> FALSE,
   ktestWritten |-> FALSE, errorMessage |-> FALSE, hasData |-> FALSE,
   failing |-> {}, files |-> <<>>, warnings |-> <<>>, exited |-> FALSE]

\* a KleeHandler after construction (lines 326-330), run with options opts
TestStart(opts) ==
  /\ options = opts
  /\ m_numTotalTests = 0
  /\ m_numGeneratedTests = 0
  /\ haltExecution = FALSE
  /\ test = NoTest

\* the characters of the names, and the decimal digits of line 495
Chars == {"a", "_", "1"}
Digits == {"0", "1", "2", "3", "4", "5", "6", "7", "8", "9"}

\* std::string::rfind("_"), line 491: the last position of an underscore, 0
\* for npos
LastUnderscore(name) ==
  IF \E i \in 1..Len(name) : name[i] = "_"
  THEN CHOOSE i \in 1..Len(name) :
         name[i] = "_" /\ \A j \in (i + 1)..Len(name) : name[j] # "_"
  ELSE 0

\* "Drop the '..._1' suffix", lines 490-505
StripSuffix(name) ==
  LET last_underscore == LastUnderscore(name)
      all_digits == \A j \in (last_underscore + 1)..Len(name) : name[j] \in Digits
  IN  IF last_underscore # 0 /\ all_digits
      THEN SubSeq(name, 1, last_underscore - 1)
      ELSE name

\* s if c holds, the empty sequence otherwise
SeqIf(c, s) == IF c THEN s ELSE <<>>

\* one per-test file: its suffix, whether the code writes through the
\* stream whatever the data are, and whether the writing itself faults
Writer(suffix, writes, faults) ==
  [suffix |-> suffix, writes |-> writes, faults |-> faults]

\* the per-test files opened before the halt check, lines 544-628, in the
\* order of the code; pathFaults: dumpCallPath faults
WritersBeforeHalt(opts, traces, success, errorMessage, hasData, pathFaults) ==
  SeqIf(success /\ traces, <<Writer("call_path", TRUE, pathFaults)>>)
    \o SeqIf(errorMessage, <<Writer("err", TRUE, FALSE)>>)
    \o SeqIf(opts.m_pathWriter, <<Writer("path", hasData, FALSE)>>)
    \o SeqIf(errorMessage \/ opts.WriteKQueries, <<Writer("kquery", TRUE, FALSE)>>)
    \o SeqIf(opts.WriteCVCs, <<Writer("cvc", TRUE, FALSE)>>)
    \o SeqIf(opts.WriteSMT2s, <<Writer("smt2", TRUE, FALSE)>>)
    \o SeqIf(opts.m_symPathWriter, <<Writer("sym.path", hasData, FALSE)>>)
    \o SeqIf(opts.WriteCov, <<Writer("cov", hasData, FALSE)>>)

\* the per-test file opened after the halt check, lines 631-637
WritersAfterHalt(opts) ==
  SeqIf(opts.WriteTestInfo, <<Writer("info", TRUE, FALSE)>>)

\* the suffixes of the per-test files that openOutputFile opens
Suffixes ==
  {"call_path", "err", "path", "kquery", "cvc", "smt2", "sym.path", "cov", "info"}

\* the outcome of a run of writers: the files with what became of them,
\* the warnings emitted, and whether the process ended in a fault
Ran(files, warnings, fault) ==
  [files |-> files, warnings |-> warnings, crashed |-> fault]

\* f = openTestFile(...); *f << ...; delete f; for the writers from i on,
\* the files with a suffix in failing not opening (openOutputFile warns and
\* returns NULL, lines 439-444)
RECURSIVE RunWriters(_, _, _, _)
RunWriters(steps, i, failing, ub) ==
  IF i > Len(steps) THEN Ran(<<>>, <<>>, FALSE)
  ELSE LET w == steps[i]
           rest == RunWriters(steps, i + 1, failing, ub)
       IN  IF w.suffix \in failing
           THEN IF w.writes /\ ub = "crash"
                THEN Ran(<<[suffix |-> w.suffix, st |-> "null stream"]>>,
                         <<"error opening file">>, TRUE)
                ELSE Ran(<<[suffix |-> w.suffix, st |-> "null stream"]>> \o rest.files,
                         <<"error opening file">> \o rest.warnings, rest.crashed)
           ELSE IF w.faults
           THEN Ran(<<[suffix |-> w.suffix, st |-> "partial"]>>, <<>>, TRUE)
           ELSE Ran(<<[suffix |-> w.suffix, st |-> "written"]>> \o rest.files,
                    rest.warnings, rest.crashed)

\* the names given to the .ktest objects, lines 487-508
RECURSIVE KTestNames(_, _)
KTestNames(out, i) ==
  IF i > Len(out) THEN <<>>
  ELSE <<StripSuffix(out[i])>> \o KTestNames(out, i + 1)

(***************************************************************************)
(* KleeHandler::processTestCase, lines 462-644, for a state with call path *)
(* state.callPath and symbolic objects named out.  success: the solver     *)
(* gives a solution; ktestWritten: kTest_toFile succeeds; errorMessage: an *)
(* error message is given; hasData: the path and coverage streams are not  *)
(* empty; failing: the suffixes of the files that do not open.             *)
(***************************************************************************)
processTestCase(state, out, success, ktestWritten, errorMessage, hasData, failing, ub) ==
  /\ ~crashed
  /\ ~test.exited
  /\ LET id == m_numTotalTests + 1
         generated == IF success /\ ktestWritten
                      THEN m_numGeneratedTests + 1 ELSE m_numGeneratedTests
         w == dumpCalls(state.callPath, 1, ub)
         pre == RunWriters(WritersBeforeHalt(options, DumpCallTraces, success,
                                             errorMessage, hasData,
                                             w.st = "crashed"),
                           1, failing, ub)
         post == IF pre.crashed THEN Ran(<<>>, <<>>, FALSE)
                 ELSE RunWriters(WritersAfterHalt(options), 1, failing, ub)
         fault == pre.crashed \/ post.crashed
         exits == errorMessage /\ options.OptExitOnError
     IN  IF options.NoOutput
         THEN /\ test' = [NoTest EXCEPT !.op = "processTestCase", !.out = out,
                                        !.errorMessage = errorMessage,
                                        !.exited = exits]
              /\ UNCHANGED <<m_numTotalTests, m_numGeneratedTests,
                             haltExecution, outVars>>
         ELSE /\ m_numTotalTests' = id
              /\ m_numGeneratedTests' = generated
              /\ haltExecution' =
                   (haltExecution
                      \/ (~pre.crashed /\ generated = options.StopAfterNTests))
              /\ test' = [op |-> "processTestCase", id |-> id, out |-> out,
                          names |-> IF success THEN KTestNames(out, 1) ELSE <<>>,
                          success |-> success,
                          ktestWritten |-> success /\ ktestWritten,
                          errorMessage |-> errorMessage,
                          hasData |-> hasData,
                          failing |-> failing,
                          files |-> pre.files \o post.files,
                          warnings |->
                            SeqIf(~success, <<"unable to get symbolic solution">>)
                              \o SeqIf(success /\ ~ktestWritten,
                                       <<"unable to write output test case">>)
                              \o pre.warnings \o post.warnings,
                          exited |-> ~fault /\ exits]
              /\ crashed' = fault
              /\ IF success /\ DumpCallTraces
                 THEN written' =
                        Output("dumpCallPath", state.callPath, state.constraints,
                               IF "call_path" \in failing /\ ub = "crash"
                               THEN <<>> ELSE w.sts,
                               IF "call_path" \in failing THEN <<>>
                               ELSE <<";;-- kQuery --\n", "kquery", ";;-- Calls --\n">>
                                      \o w.out
                                      \o IF w.st = "crashed" THEN <<>>
                                         ELSE <<";;-- Constraints --\n">>
                                                \o dumpConstraints(state.constraints, 1, ub).out
                                                \o <<";;-- Tags --\n">>,
                               "call_path" \notin failing,
                               "call_path" \in failing)
                 ELSE UNCHANGED written
  /\ UNCHANGED <<options, treeVars>>

\* the terminated states of the test specifications: no calls, one constraint
TestStates == {[callPath |-> <<>>, constraints |-> <<4>>]}

\* the names of symbolic objects
Names == SeqsUpTo(Chars, MaxNameLen)

vars == <<mhVars, treeVars, outVars, testVars, prefixVars, watchVars, rangeVars>>

(***************************************************************************)
(* The watchdog of main, lines 1886-1950: the parent process polls the     *)
(* child, which runs the interpreter, once a second.                       *)
(***************************************************************************)
\* the exit statuses of the child
ExitCodes == {0, 1, 2}

\* MaxTime*1.1, line 1899, and std::max(15., MaxTime*.1), line 1943, in
\* seconds
WatchLimit == 1
WatchGrace == 2

\* the watchdog loop has not returned
NotReturned == -1

\* the child process: running, exited with a status (a zombie until it is
\* waited for), ended by a signal, or waited for
ChildRunning == [st |-> "running", status |-> 0]
ChildExited(status) == [st |-> "exited", status |-> status]
ChildSignaled == [st |-> "signaled", status |-> 0]
ChildReaped == [st |-> "reaped", status |-> 0]

\* the child after fork(), with interrupt_handle installed (line 1952), and
\* the watchdog before its first poll (lines 1899-1900)
WatchStart ==
  /\ level = 0
  /\ measures = <<>>
  /\ child = ChildRunning
  /\ interrupted = FALSE
  /\ theInterpreter = FALSE
  /\ returned = NotReturned
  /\ clock = 0
  /\ nextStep = WatchLimit

\* the child reaches line 2084: theInterpreter = Interpreter::create(...)
CreateInterpreter ==
  /\ child.st = "running"
  /\ ~theInterpreter
  /\ theInterpreter' = TRUE
  /\ UNCHANGED <<level, measures, child, interrupted, returned, haltExecution,
                 clock, nextStep>>

\* the child leaves main on its own with the given status
ChildExits(status) ==
  /\ child.st = "running"
  /\ child' = ChildExited(status)
  /\ UNCHANGED <<level, measures, interrupted, theInterpreter, returned,
                 haltExecution, clock, nextStep>>

\* interrupt_handle in the child, lines 1716-1726: what a SIGINT does to
\* the child, the halt flag and interrupted
interrupt_handle ==
  IF ~interrupted /\ theInterpreter
  THEN [child |-> child, halt |-> TRUE, interrupted |-> TRUE]
  ELSE [child |-> ChildExited(1), halt |-> haltExecution,
        interrupted |-> interrupted]

\* halt_via_gdb, lines 1733-1743: the debugger calls halt_execution() in
\* the child; with theInterpreter still null the call goes through a null
\* pointer, and ub is what becomes of it
halt_via_gdb(ub) ==
  IF theInterpreter
  THEN [child |-> child, halt |-> TRUE, interrupted |-> interrupted]
  ELSE [child |-> IF ub = "crash" THEN ChildSignaled ELSE child,
        halt |-> haltExecution, interrupted |-> interrupted]

\* the measure the watchdog takes at the given level, lines 1926-1939
Measure(lvl) ==
  IF lvl = 1 THEN "SIGINT" ELSE IF lvl = 2 THEN "gdb" ELSE "SIGKILL"

\* the escalation of lines 1924-1940 at level lvl: the measure taken, its
\* effect on the child, and the value returned, if any
Escalate(lvl, ub) ==
  LET still == [child |-> child, halt |-> haltExecution, interrupted |-> interrupted]
      hit == IF child.st # "running" THEN still
             ELSE IF lvl = 1 THEN interrupt_handle
             ELSE IF lvl = 2 THEN halt_via_gdb(ub)
             ELSE [still EXCEPT !.child = ChildSignaled]
  IN  [measure |-> Measure(lvl),
       child |-> hit.child, halt |-> hit.halt, interrupted |-> hit.interrupted,
       returned |-> IF lvl >= 3 THEN 1 ELSE NotReturned]

\* a child that waitpid has reported is waited for
Waited(c) == IF c.st = "signaled" THEN ChildReaped ELSE c

(***************************************************************************)
(* One iteration of the watchdog loop, lines 1903-1946.  slept is the      *)
(* time sleep(1) took, in seconds; err is the error of waitpid, if it has  *)
(* one besides ECHILD; ub is what a null call made by the debugger         *)
(* becomes.                                                                *)
(***************************************************************************)
WatchdogPoll(slept, err, ub) ==
  /\ returned = NotReturned
  /\ clock' = clock + slept
  /\ IF child.st = "reaped"
     THEN \* res < 0 with ECHILD
          /\ returned' = 1
          /\ UNCHANGED <<level, measures, child, interrupted, haltExecution, nextStep>>
     ELSE IF err = "EINTR"
     THEN UNCHANGED <<level, measures, child, interrupted, returned, haltExecution,
                      nextStep>>
     ELSE IF err = "other"
     THEN \* perror and exit(1)
          /\ returned' = 1
          /\ UNCHANGED <<level, measures, child, interrupted, haltExecution, nextStep>>
     ELSE IF child.st = "exited"
     THEN /\ returned' = child.status
          /\ child' = ChildReaped
          /\ UNCHANGED <<level, measures, interrupted, haltExecution, nextStep>>
     ELSE IF ~(clock' > nextStep)
     THEN /\ child' = Waited(child)
          /\ UNCHANGED <<level, measures, interrupted, returned, haltExecution,
                         nextStep>>
     ELSE LET e == Escalate(level + 1, ub)
          IN  /\ level' = level + 1
              /\ measures' = Append(measures, e.measure)
              /\ child' = IF child.st = "running" THEN e.child ELSE Waited(child)
              /\ haltExecution' = e.halt
              /\ interrupted' = e.interrupted
              /\ returned' = e.returned
              /\ nextStep' = clock' + WatchGrace
  /\ UNCHANGED theInterpreter

(***************************************************************************)
(* klee_make_symbolic_range, klee_make_symbolic_range.c:13-27, on a        *)
(* program with one object of ObjSize bytes at ObjBase in an address space *)
(* of AddrSpace bytes; pointer arithmetic wraps at AddrSpace.              *)
(***************************************************************************)
AddrSpace == 8
ObjBase == 2
ObjSize == 3

\* the null pointer, and the addresses of the space
Null == 0
Addresses == 0..(AddrSpace - 1)

\* the address of a name string
NameAddr == 1

\* the addresses of the object
ObjBytes == ObjBase..(ObjBase + ObjSize - 1)

\* the concrete byte the object holds at first
Concrete == [sym |-> 0, at |-> 0]

\* byte number at of the symbolic object number sym
Symbolic(sym, at) == [sym |-> sym, at |-> at]

\* a running program with its object, no symbolic object made and no
\* memory access checked
RangeStart ==
  /\ memory = [a \in ObjBytes |-> Concrete]
  /\ symbolics = <<>>
  /\ checks = <<>>
  /\ ended = FALSE
  /\ rangeCall = [addr |-> Null, offset |-> 0, nbytes |-> 0, name |-> Null, n |-> 0]

\* void* start = addr + offset
StartOf(addr, offset) == (addr + offset) % AddrSpace

\* klee_check_memory_access(start, nbytes): the bytes start .. start+nbytes-1
\* lie in one object
InBounds(start, nbytes) ==
  \A k \in 0..(nbytes - 1) : start + k \in ObjBytes

\* memcpy that copies one byte more than it is asked to
memcpy_OneMore(mem, start, nbytes, sym) ==
  [a \in DOMAIN mem |->
     IF a >= start /\ a <= start + nbytes THEN Symbolic(sym, a - start) ELSE mem[a]]

\* memcpy(start, symbolic_data, nbytes), symbolic_data being the symbolic
\* object number sym
memcpy(mem, start, nbytes, sym) ==
  [a \in DOMAIN mem |->
     IF a >= start /\ a < start + nbytes THEN Symbolic(sym, a - start) ELSE mem[a]]

(***************************************************************************)
(* klee_make_symbolic_range(addr, offset, nbytes, name).  A failed         *)
(* assertion and a failed memory-access check end the state.               *)
(***************************************************************************)
klee_make_symbolic_range(addr, offset, nbytes, name) ==
  /\ ~ended
  /\ IF addr = Null \/ name = Null
     THEN /\ ended' = TRUE
          /\ UNCHANGED <<memory, symbolics, checks>>
     ELSE IF nbytes = 0
     THEN UNCHANGED <<memory, symbolics, checks, ended>>
     ELSE LET start == StartOf(addr, offset)
          IN  /\ checks' = Append(checks, [start |-> start, nbytes |-> nbytes])
              /\ IF ~InBounds(start, nbytes)
                 THEN /\ ended' = TRUE
                      /\ UNCHANGED <<memory, symbolics>>
                 ELSE /\ symbolics' = Append(symbolics, [name |-> name, nbytes |-> nbytes])
                      /\ memory' = memcpy(memory, start, nbytes, Len(symbolics) + 1)
                      /\ UNCHANGED ended
  /\ rangeCall' = [addr |-> addr, offset |-> offset, nbytes |-> nbytes,
                   name |-> name, n |-> rangeCall.n + 1]

\* the names passed, Null included
RangeNames == {Null, NameAddr}

(***************************************************************************)
(* Spec: one merge region while its handler lives: the interpreter forks   *)
(* the region's states, closes and terminates them, and polls the          *)
(* prioritizer.                                                            *)
(***************************************************************************)
RegionNext ==
  \/ \E s \in States : EnterCloseMerge(s)
  \/ \E s \in States : removeFromCloseMergeSet(s)
  \/ \E es \in States, stepped \in Counters :
       created = 0 /\ Construct(es, stepped)
  \/ \E h \in HandlerIds, parent, es \in States : addOpenState(h, parent, es)
  \/ \E h \in HandlerIds, es \in States : RemoveOpenState(h, es)
  \/ \E h \in HandlerIds, es \in States, mp \in ClosePoints :
       \E acc \in SUBSET (IF mp \in DOMAIN reachedMergeClose[h]
                          THEN Range(reachedMergeClose[h][mp]) ELSE {}) :
         \E stepped \in CountersOf(h) : addClosedState(h, es, mp, acc, stepped)
  \/ \E h \in HandlerIds : \E stepped \in PollReads(h) :
       GetPrioritizeState(h, stepped)

Init == MhInit /\ TreeStart(FALSE, FALSE) /\ OutStart /\ PrefixStart /\ WatchStart /\ RangeStart /\ TestStart(DefaultOptions)

Next == RegionNext /\ UNCHANGED <<treeVars, outVars, testVars, prefixVars, watchVars, rangeVars>>

Spec == Init /\ [][Next]_vars

(***************************************************************************)
(* SpecNest: several regions, their handlers constructed, released and     *)
(* destroyed in any order; every counter reads 0.                          *)
(***************************************************************************)
NestRegions ==
  \/ \E es \in States : Construct(es, 0)
  \/ \E h \in HandlerIds, parent, es \in States : addOpenState(h, parent, es)
  \/ \E h \in HandlerIds, es \in States : RemoveOpenState(h, es)
  \/ \E h \in HandlerIds, es \in States, mp \in ClosePoints :
       \E acc \in SUBSET (IF mp \in DOMAIN reachedMergeClose[h]
                          THEN Range(reachedMergeClose[h][mp]) ELSE {}) :
         addClosedState(h, es, mp, acc, openInstruction[h])
  \/ \E h \in HandlerIds : ReleaseStates(h)
  \/ \E h \in HandlerIds : Destroy(h)

NestNext == NestRegions /\ UNCHANGED <<treeVars, outVars, testVars, prefixVars, watchVars, rangeVars>>

SpecNest == Init /\ [][NestNext]_vars

(***************************************************************************)
(* SpecMisuse: one region whose callers may also add a state to the        *)
(* handler that is already open in it; every counter reads 0.              *)
(***************************************************************************)
MisuseRegion ==
  \/ \E es \in States : created = 0 /\ Construct(es, 0)
  \/ \E h \in HandlerIds, parent, es \in States : addOpenState(h, parent, es)
  \/ \E h \in HandlerIds, es \in States : AddOpenStateAgain(h, es)
  \/ \E h \in HandlerIds, es \in States : RemoveOpenState(h, es)
  \/ \E h \in HandlerIds, es \in States, mp \in ClosePoints :
       \E acc \in SUBSET (IF mp \in DOMAIN reachedMergeClose[h]
                          THEN Range(reachedMergeClose[h][mp]) ELSE {}) :
         addClosedState(h, es, mp, acc, openInstruction[h])

\* calls with a state that is not open in the handler
MisuseFaults ==
  \/ \E h \in HandlerIds, es \in States : RemoveUnopenedState(h, es)
  \/ \E h \in HandlerIds, es \in States, mp \in ClosePoints :
       AddUnopenedClosedState(h, es, mp, openInstruction[h])

MisuseNext ==
  /\ ~crashed
  /\ \/ MisuseRegion /\ UNCHANGED outVars
     \/ MisuseFaults /\ UNCHANGED written
  /\ UNCHANGED <<treeVars, testVars, prefixVars, watchVars, rangeVars>>

SpecMisuse == Init /\ [][MisuseNext]_vars

(***************************************************************************)
(* SpecStray: several regions, their handlers constructed and destroyed in *)
(* any order, and the destructor run on a handler that is not registered.  *)
(***************************************************************************)
StrayRegions ==
  \/ \E es \in States : Construct(es, 0)
  \/ \E h \in HandlerIds, parent, es \in States : addOpenState(h, parent, es)
  \/ \E h \in HandlerIds, es \in States : RemoveOpenState(h, es)
  \/ \E h \in HandlerIds : Destroy(h)

StrayNext ==
  /\ ~crashed
  /\ \/ StrayRegions /\ UNCHANGED outVars
     \/ \E ub \in UBOutcomes : DestroyUnregistered(ub) /\ UNCHANGED written
  /\ UNCHANGED <<treeVars, testVars, prefixVars, watchVars, rangeVars>>

SpecStray == Init /\ [][StrayNext]_vars

(***************************************************************************)
(* SpecTree: the call paths of terminated states are submitted to the      *)
(* call tree, under every setting of the two options.                      *)
(***************************************************************************)
TreeInit ==
  /\ MhInit
  /\ \E prefixes, traces \in BOOLEAN : TreeStart(prefixes, traces)
  /\ OutStart
  /\ PrefixStart
  /\ WatchStart
  /\ RangeStart
  /\ TestStart(DefaultOptions)

TreeNext ==
  /\ \E path \in CallPaths : ProcessCallPath(path)
  /\ UNCHANGED <<mhVars, testVars, prefixVars, watchVars, rangeVars>>

SpecTree == TreeInit /\ [][TreeNext]_vars

(***************************************************************************)
(* SpecGroup: prefix dumping is on; terminated states with one-call paths  *)
(* give the root its children, and the prefix dumper groups the children   *)
(* of a node.                                                              *)
(***************************************************************************)
GroupInit == MhInit /\ TreeStart(TRUE, FALSE) /\ OutStart /\ PrefixStart /\ WatchStart /\ RangeStart /\ TestStart(DefaultOptions)

GroupNext ==
  /\ \/ \E call \in GroupCalls :
          /\ Cardinality(inserted) < MaxChildren
          /\ \E ub \in UBOutcomes : processCallPath(<<call>>, <<>>, TRUE, ub)
     \/ \E node \in 0..MaxChildren : GroupChildren(node) /\ UNCHANGED outVars
  /\ UNCHANGED <<mhVars, testVars, prefixVars, watchVars, rangeVars>>

SpecGroup == GroupInit /\ [][GroupNext]_vars

(***************************************************************************)
(* SpecDump: call-path dumping is on; terminated states with any call      *)
(* path over DumpCalls are dumped in plain text, with or without a stream, *)
(* and calls are serialized as s-expressions.                              *)
(***************************************************************************)
DumpInit == MhInit /\ TreeStart(FALSE, TRUE) /\ OutStart /\ PrefixStart /\ WatchStart /\ RangeStart /\ TestStart(DefaultOptions)

DumpNext ==
  /\ \/ \E path \in DumpPaths, constraints \in ConstraintSets :
          \E opened \in BOOLEAN, ub \in UBOutcomes :
            /\ m_callPathIndex <= MaxPaths
            /\ processCallPath(path, constraints, opened, ub)
     \/ \E ci \in DumpCalls, ub \in UBOutcomes : DumpCallInfoSExpr(ci, ub)
  /\ UNCHANGED <<mhVars, testVars, prefixVars, watchVars, rangeVars>>

SpecDump == DumpInit /\ [][DumpNext]_vars

(***************************************************************************)
(* SpecPrefix: prefix dumping is on; terminated states with call paths     *)
(* over PrefixCalls are submitted while the interpreter runs, and main     *)
(* saves the call prefixes afterwards, with or without streams.            *)
(***************************************************************************)
PrefixInit ==
  MhInit /\ TreeStart(TRUE, FALSE) /\ OutStart /\ PrefixStart /\ WatchStart /\ RangeStart /\ TestStart(DefaultOptions)

PrefixNext ==
  /\ \/ \E path \in PrefixPaths :
          /\ ~prefixesSaved
          /\ Cardinality(inserted) < MaxPaths
          /\ \E ub \in UBOutcomes : processCallPath(path, <<>>, TRUE, ub)
          /\ UNCHANGED prefixVars
     \/ DumpCallPathPrefixes
  /\ UNCHANGED <<mhVars, testVars, watchVars, rangeVars>>

SpecPrefix == PrefixInit /\ [][PrefixNext]_vars

(***************************************************************************)
(* SpecWatch: klee run with --watchdog: the child creates its interpreter  *)
(* and may exit with any status at any time; the watchdog polls it, with   *)
(* the timer expired or not.                                               *)
(***************************************************************************)
WatchNext ==
  /\ \/ CreateInterpreter
     \/ \E status \in ExitCodes : ChildExits(status)
     \/ \E slept \in 1..MaxSleep, err \in {"none", "EINTR", "other"}, ub \in UBOutcomes :
          clock + slept <= MaxClock /\ WatchdogPoll(slept, err, ub)
  /\ UNCHANGED <<mhVars, treeVars, outVars, prefixVars, rangeVars,
                 options, m_numTotalTests, m_numGeneratedTests, test>>

SpecWatch == Init /\ [][WatchNext]_vars

(***************************************************************************)
(* SpecRange: a program calls klee_make_symbolic_range with any pointer,   *)
(* offset, length and name, at most MaxRangeCalls times.                   *)
(***************************************************************************)
RangeNext ==
  /\ \E addr \in {Null} \cup ObjBytes, offset \in Addresses, nbytes \in 0..ObjSize,
        name \in RangeNames :
       /\ rangeCall.n < MaxRangeCalls
       /\ klee_make_symbolic_range(addr, offset, nbytes, name)
  /\ UNCHANGED <<mhVars, treeVars, outVars, testVars, prefixVars, watchVars>>

SpecRange == Init /\ [][RangeNext]_vars

(***************************************************************************)
(* SpecTest: test cases are processed under each command line of           *)
(* OptionSets, with or without call-path dumping, every solver and write   *)
(* outcome, and at most one per-test file that does not open.              *)
(***************************************************************************)
TestInit ==
  /\ MhInit
  /\ \E traces \in BOOLEAN : TreeStart(FALSE, traces)
  /\ OutStart
  /\ PrefixStart
  /\ WatchStart
  /\ RangeStart
  /\ \E opts \in OptionSets : TestStart(opts)

TestNext ==
  /\ \E state \in TestStates, success, ktestWritten, errorMessage, hasData \in BOOLEAN :
       \E failing \in {{}} \cup {{x} : x \in Suffixes}, ub \in UBOutcomes :
         /\ m_numTotalTests < MaxTests
         /\ processTestCase(state, <<<<"a", "_", "1">>>>, success, ktestWritten,
                            errorMessage, hasData, failing, ub)
  /\ UNCHANGED <<mhVars, prefixVars, watchVars, rangeVars>>

SpecTest == TestInit /\ [][TestNext]_vars

(***************************************************************************)
(* SpecNames: test cases of one symbolic object, of every name over Chars, *)
(* are processed under the default command line; every file opens.         *)
(***************************************************************************)
NamesInit == MhInit /\ TreeStart(FALSE, FALSE) /\ OutStart /\ PrefixStart /\ WatchStart /\ RangeStart /\ TestStart(DefaultOptions)

NamesNext ==
  /\ \E state \in TestStates, name \in Names, success, ktestWritten, errorMessage \in BOOLEAN :
       \E ub \in UBOutcomes :
         /\ m_numTotalTests < MaxTests
         /\ processTestCase(state, <<name>>, success, ktestWritten,
                            errorMessage, FALSE, {}, ub)
  /\ UNCHANGED <<mhVars, prefixVars, watchVars, rangeVars>>

SpecNames == NamesInit /\ [][NamesNext]_vars

(***************************************************************************)
(*                              The claims                                 *)
(***************************************************************************)

\* the number of calls of one kind that a step makes for state s
Delta(counter, counterNext, h, s) == counterNext[h][s] - counter[h][s]

\* C1: addClosedState(s, cp): when the bucket of cp exists and some peer in
\* it accepts the merge, exactly one terminateState(s) call is made, no
\* pauseState(s) call is made and s is not added to the bucket; when the
\* bucket does not exist or every peer rejects, s is appended to the bucket
\* of cp, exactly one pauseState(s) call is made and no terminateState call.
C1_MergeTerminationRule ==
  [][last'.op = "addClosedState" =>
       LET h == last'.h
           es == last'.es
           mp == last'.mp
           pre == reachedMergeClose[h]
           post == reachedMergeClose'[h]
           accepted == /\ mp \in DOMAIN pre
                       /\ Range(pre[mp]) \cap last'.acc # {}
       IN  IF accepted
           THEN /\ Delta(terminateCalls, terminateCalls', h, es) = 1
                /\ Delta(pauseCalls, pauseCalls', h, es) = 0
                /\ post = pre
                /\ es \notin Range(post[mp])
           ELSE /\ post[mp] = (IF mp \in DOMAIN pre THEN pre[mp] ELSE <<>>)
                                \o <<es>>
                /\ Delta(pauseCalls, pauseCalls', h, es) = 1
                /\ \A s \in States : Delta(terminateCalls, terminateCalls', h, s) = 0
  ]_vars

\* an arrival was merged into the second peer of a bucket after the first
\* peer rejected it
C1_Witness ==
  /\ last.op = "addClosedState"
  /\ last.calls = << <<"terminateState", last.es>> >>
  /\ Len(last.attempts) = 2
  /\ Len(reachedMergeClose[last.h][last.mp]) = 2

\* C2: after n >= 1 addClosedState calls with distances d_1..d_n, getMean()
\* equals (d_1 + ... + d_n) / n; with no addClosedState call so far
\* getMean() returns 0.
C2_MeanInvariant ==
  \A h \in HandlerIds :
    Live(h) =>
      getMean(h) = IF closedStateCount[h] = 0 THEN Zero
                   ELSE Fin(distanceSum[h], closedStateCount[h])

\* C3: releaseStates() after any sequence of addClosedState calls: every
\* state the handler has paused receives exactly one continueState call,
\* no other state (in particular no merged-away, terminated state) receives
\* one, and afterwards all buckets are empty.
C3_PauseContinueBalance ==
  [][last'.op \in {"releaseStates", "destroy"} =>
       LET h == last'.h
       IN  /\ \A s \in States :
                Delta(continueCalls, continueCalls', h, s) =
                  IF pauseCalls[h][s] > continueCalls[h][s] THEN 1 ELSE 0
           /\ \A s \in States :
                /\ continueCalls'[h][s] = pauseCalls'[h][s]
                /\ CountCalls(last'.calls, "continueState", s) =
                     Delta(continueCalls, continueCalls', h, s)
           /\ DOMAIN reachedMergeClose'[h] = {}
  ]_vars

\* a release that continued two paused states of one bucket while a third
\* state had been merged away
C3_Witness ==
  /\ last.op = "releaseStates"
  /\ Len(last.calls) = 2
  /\ \E s \in States : terminateCalls[last.h][s] = 1
  /\ \E s, u \in States :
       s # u /\ continueCalls[last.h][s] = 1 /\ continueCalls[last.h][u] = 1

\* distance(s) < 2 * getMean(), strictly, with the counters as read
BelowTwiceMean(h, s, stepped) ==
  LET m == getMean(h)
  IN  /\ m.k = "fin"
      /\ (stepped[s] - openInstruction[h]) * m.den < 2 * m.num

\* C4: getPrioritizeState() returns an open state s only if
\* distance(s) < 2 * getMean() (strict) and s is not in inCloseMerge; it
\* returns none exactly when no open state satisfies both conditions.
C4_PriorityPredicate ==
  last.op = "getPrioritizeState" =>
    LET h == last.h
        candidates == {s \in Range(openStates[h]) :
                         /\ BelowTwiceMean(h, s, last.stepped)
                         /\ s \notin inCloseMerge}
    IN  /\ last.ret # NoState => last.ret \in candidates
        /\ last.ret = NoState <=> candidates = {}

\* the poll returned none although an open state outside inCloseMerge is
\* at exactly twice the (positive) mean
C4_Witness ==
  /\ last.op = "getPrioritizeState"
  /\ last.ret = NoState
  /\ \E s \in Range(openStates[last.h]) :
       /\ s \notin inCloseMerge
       /\ getMean(last.h).k = "fin"
       /\ getMean(last.h).num > 0
       /\ getInstrDistance(last.h, last.stepped[s]) * getMean(last.h).den
            = 2 * getMean(last.h).num

\* the first state of the sequence order that qualifies for prioritization
\* in handler h, NoState if none does
RECURSIVE FirstCandidate(_, _, _, _)
FirstCandidate(h, order, stepped, i) ==
  IF i > Len(order) THEN NoState
  ELSE IF BelowTwiceMean(h, order[i], stepped) /\ order[i] \notin inCloseMerge
       THEN order[i]
  ELSE FirstCandidate(h, order, stepped, i + 1)

C7_MergeScenario ==
  \A h \in HandlerIds, A, B \in States, mp \in ClosePoints :
    ( /\ last.op = "addClosedState" /\ last.h = h /\ last.es = B
      /\ last.mp = mp
      /\ last.calls = << <<"terminateState", B>> >>
      /\ last.attempts = <<A>>
      /\ SumOver(pauseCalls[h], States) + SumOver(terminateCalls[h], States) = 2 )
    => /\ reachedMergeClose[h][mp] = <<A>>
       /\ pauseCalls[h][A] = 1 /\ continueCalls[h][A] = 0
       /\ terminateCalls[h][A] = 0
       /\ terminateCalls[h][B] = 1
       /\ B \notin Bucketed(h)
       /\ closedStateCount[h] = 2
       /\ getMean(h) = Fin(distanceSum[h], 2)

\* C8: the handler terminates a state only inside that state's own
\* addClosedState call, and only when the bucket of that close point held
\* a peer whose merge accepted it; a state paused in a bucket is never
\* terminated by the handler and leaves the bucket only by being continued
\* in releaseStates.
C8_LifeCycle ==
  [][\A h \in HandlerIds, s \in States :
       /\ terminateCalls'[h][s] # terminateCalls[h][s] =>
            /\ last'.op = "addClosedState" /\ last'.h = h /\ last'.es = s
            /\ last'.mp \in DOMAIN reachedMergeClose[h]
            /\ Range(reachedMergeClose[h][last'.mp]) \cap last'.acc # {}
            /\ s \notin Bucketed(h)
       /\ s \in Bucketed(h) =>
            /\ terminateCalls'[h][s] = terminateCalls[h][s]
            /\ s \notin UNION {Range(reachedMergeClose'[h][mp]) :
                                 mp \in DOMAIN reachedMergeClose'[h]} =>
                 /\ last'.op \in {"releaseStates", "destroy"}
                 /\ last'.h = h
                 /\ continueCalls'[h][s] = continueCalls[h][s] + 1
  ]_vars

\* the handler was destroyed after it had merged one arrival away and kept
\* its peer paused: the peer was continued, never terminated
C8_Witness ==
  /\ last.op = "destroy"
  /\ \E s, u \in States :
       /\ terminateCalls[last.h][s] = 1
       /\ pauseCalls[last.h][s] = 0
       /\ pauseCalls[last.h][u] = 1
       /\ continueCalls[last.h][u] = 1
       /\ terminateCalls[last.h][u] = 0

\* two paths agree, call by call with eq, on their first k calls
AgreeOn(p, q, k) ==
  /\ k <= Len(p)
  /\ k <= Len(q)
  /\ \A i \in 1..k : eq(p[i], q[i])

\* the walk of an inserted path is a chain of the tree from the root whose
\* tips are eq to the calls of the path
IsChain(r) ==
  /\ Len(r.walk) = Len(r.path)
  /\ \A i \in 1..Len(r.walk) :
       /\ r.walk[i] \in Range(children[IF i = 1 THEN Root ELSE r.walk[i - 1]])
       /\ eq(tip[r.walk[i]].call, r.path[i])

\* C9: after any sequence of addCallPath insertions, any two inserted paths
\* that agree (by eq) on their first k calls follow the same first k nodes
\* from the root.
C9_PrefixSharing ==
  /\ \A r \in inserted : IsChain(r)
  /\ \A r1, r2 \in inserted :
       \A k \in 0..MaxPathLen :
         AgreeOn(r1.path, r2.path, k) =>
           SubSeq(r1.walk, 1, k) = SubSeq(r2.walk, 1, k)

\* [c1,c2,c3] and [c1,c2,c4] with c3 # c4 have been inserted: one node for
\* c1, one for c2, and two children under c2
C9_Witness ==
  \E r1, r2 \in inserted :
    /\ Len(r1.path) = 3 /\ Len(r2.path) = 3
    /\ AgreeOn(r1.path, r2.path, 2)
    /\ ~eq(r1.path[3], r2.path[3])
    /\ Len(children[Root]) = 1
    /\ Len(children[r1.walk[1]]) = 1
    /\ children[r1.walk[2]] = <<r1.walk[3], r2.walk[3]>>
    /\ Len(tip) = 4

\* the non-empty prefixes of the inserted paths
InsertedPrefixes ==
  UNION {{SubSeq(r.path, 1, k) : k \in 1..Len(r.path)} : r \in inserted}

\* a largest set of inserted prefixes no two of which are equal call by
\* call (eq)
DistinctPrefixCount ==
  LET same(p, q) == Len(p) = Len(q) /\ AgreeOn(p, q, Len(p))
      reps == {p \in InsertedPrefixes :
                 \A q \in InsertedPrefixes : same(p, q) => q = p}
  IN  Cardinality(reps)

\* C10: the number of non-root nodes of the CallTree equals the number of
\* distinct non-empty prefixes (call by call, eq) of the inserted paths;
\* re-inserting a path, or inserting a prefix of one, adds no node.
C10_TreeSize ==
  /\ Len(tip) = DistinctPrefixCount
  /\ DOMAIN children = 0..Len(tip)

\* a path of three calls was inserted and then a non-empty prefix of it
\* (or the path again): the tree has three nodes
C10_Witness ==
  \E r1, r2 \in inserted :
    /\ r1.n = 1 /\ r2.n = 2
    /\ Len(r1.path) = 3
    /\ Len(r2.path) >= 1
    /\ AgreeOn(r1.path, r2.path, Len(r2.path))
    /\ Len(tip) = 3

\* the node whose children hold the node n
Parent(n) == CHOOSE m \in DOMAIN children : n \in Range(children[m])

\* the calls on the way from the root to the node n, n's own call last
RECURSIVE CallsTo(_)
CallsTo(n) ==
  IF n = Root THEN <<>> ELSE Append(CallsTo(Parent(n)), tip[n].call)

\* the call sequences the tree holds, one per node
TreePrefixes == {CallsTo(n) : n \in 1..Len(tip)}

\* the tree that the insertions of hist[i..], in order, make of (ch, tp);
\* the i-th insertion carries the path id processCallPath gives it
RECURSIVE Replay(_, _, _, _)
Replay(ch, tp, hist, i) ==
  IF i > Len(hist) THEN [children |-> ch, tip |-> tp]
  ELSE LET r == addCallPath(ch, tp, Root, hist[i],
                            IF DumpCallTraces THEN i ELSE 1)
       IN  Replay(r.children, r.tip, hist, i + 1)

\* the insertion histories of non-empty paths
Histories == SeqsUpTo(CallPaths \ {<<>>}, MaxPaths)

\* C11 as stated: two insertion histories whose sets of paths differ never
\* produce the same tree (the set of inserted paths can be recovered from
\* the tree).
C11_Lossless ==
  (DumpCallTracePrefixes /\ \A r \in inserted : r.path # <<>>) =>
    \A alt \in Histories :
      Range(alt) # {r.path : r \in inserted} =>
        Replay((Root :> <<>>), <<>>, alt, 1)
          # [children |-> children, tip |-> tip]

\* C11 amended: the tree holds the prefix closure of the inserted paths:
\* the call sequences from the root to the nodes are exactly the non-empty
\* prefixes of the inserted paths, and no two nodes carry the same
\* sequence; where an inserted path ends is not recorded.
C11_PrefixClosure ==
  /\ TreePrefixes = InsertedPrefixes
  /\ \A n, m \in 1..Len(tip) : CallsTo(n) = CallsTo(m) => n = m

\* a path of at least two calls and then a strict non-empty prefix of it
\* were inserted: the tree is the one the longer path alone produces
C11_Witness ==
  \E r1, r2 \in inserted :
    /\ r1.n = 1 /\ r2.n = 2
    /\ Len(r1.path) >= 2
    /\ Len(r2.path) \in 1..(Len(r1.path) - 1)
    /\ AgreeOn(r1.path, r2.path, Len(r2.path))
    /\ [children |-> children, tip |-> tip]
         = Replay((Root :> <<>>), <<>>, <<r1.path>>, 1)


\* the position of child k in the children sequence kids
Pos(kids, k) == CHOOSE i \in 1..Len(kids) : kids[i] = k

\* the places <<group, index>> of the grouping ret
Places(ret) == {<<g, i>> \in (1..Len(ret)) \X (1..MaxChildren + 1) : i <= Len(ret[g])}

\* C12: the result of groupChildren() is a partition of the children of the
\* node: every child is at exactly one place of the result, no group is
\* empty, the groups are in the children order of their first members, and
\* the members of a group are in children order.
C12_Partition ==
  grouped.called =>
    LET kids == children[grouped.node]
        ret == grouped.ret
    IN  /\ \A pl \in Places(ret) : ret[pl[1]][pl[2]] \in Range(kids)
        /\ \A k \in Range(kids) :
             Cardinality({pl \in Places(ret) : ret[pl[1]][pl[2]] = k}) = 1
        /\ \A g \in 1..Len(ret) : ret[g] # <<>>
        /\ \A g1, g2 \in 1..Len(ret) :
             g1 < g2 => Pos(kids, ret[g1][1]) < Pos(kids, ret[g2][1])
        /\ \A g \in 1..Len(ret) : \A i, j \in 1..Len(ret[g]) :
             i < j => Pos(kids, ret[g][i]) < Pos(kids, ret[g][j])

\* a grouping whose first group holds the first and the third child, the
\* second child being a group of its own in between
C12_Witness ==
  /\ grouped.called
  /\ Len(children[grouped.node]) = 3
  /\ grouped.ret = <<<<children[grouped.node][1], children[grouped.node][3]>>,
                     <<children[grouped.node][2]>>>>

\* the group of the grouping ret that holds child k
GroupOf(ret, k) == CHOOSE g \in 1..Len(ret) : \E i \in 1..Len(ret[g]) : ret[g][i] = k

\* C13: in the result of groupChildren(), any two children of the node are
\* in the same group if and only if their tip calls are sameInvocation.
C13_SameGroupIffSameInvocation ==
  grouped.called =>
    \A a, b \in Range(children[grouped.node]) :
      (GroupOf(grouped.ret, a) = GroupOf(grouped.ret, b))
        <=> sameInvocation(tip[a].call, tip[b].call)

\* a group of two calls that differ in their return context, and a call of
\* the same callee under another call context in a group of its own
C13_Witness ==
  /\ grouped.called
  /\ \E a, b, c \in Range(children[grouped.node]) :
       /\ a # b
       /\ GroupOf(grouped.ret, a) = GroupOf(grouped.ret, b)
       /\ tip[a].call.returnContext # tip[b].call.returnContext
       /\ GroupOf(grouped.ret, c) # GroupOf(grouped.ret, a)
       /\ tip[c].call.f = tip[a].call.f

RECURSIVE AbsentOut(_)
AbsentOut(d) ==
  \/ d.doTraceValueOut /\ d.outVal = NullExpr
  \/ \E i \in 1..Len(d.fields) : AbsentOut(d.fields[i])

\* the call holds a traced and absent out-value, in the pointee of an
\* argument or of the return value
HasAbsentOut(ci) ==
  \/ \E i \in 1..Len(ci.args) : ci.args[i].isPtr /\ AbsentOut(ci.args[i].pointee)
  \/ ci.ret.isPtr /\ AbsentOut(ci.ret.pointee)

\* the position of the first call of path with a traced and absent
\* out-value, 0 if there is none
FirstAbsent(path) ==
  IF \E k \in 1..Len(path) : HasAbsentOut(path[k])
  THEN CHOOSE k \in 1..Len(path) :
         HasAbsentOut(path[k]) /\ \A j \in 1..(k - 1) : ~HasAbsentOut(path[j])
  ELSE 0

\* C15: when the k-th call of a dumped path is the first with a traced and
\* absent out-value, the file of the plaintext dump holds the complete
\* records of the calls 1..k-1, nothing of call k or of a later call, then
\* the constraints line and the constraints, and the process goes on.
C15_AbsentOutValue ==
  (written.op = "processCallPath" /\ written.opened
     /\ FirstAbsent(written.path) # 0) =>
    LET k == FirstAbsent(written.path)
    IN  /\ ~crashed
        /\ written.text =
             dumpCalls(SubSeq(written.path, 1, k - 1), 1, "continue").out
               \o <<";;-- Constraints --\n">>
               \o dumpConstraints(written.constraints, 1, "continue").out

\* C16: when a serialized call holds a traced and absent out-value, at any
\* position, the serializer returns the failure marker for that call, reads
\* nothing through the absent expression, and the walker makes no further
\* serializer call for the path; for both serializers.
C16_FailureMarker ==
  (written.op # "none" /\ written.opened /\ FirstAbsent(written.path) # 0) =>
    LET k == FirstAbsent(written.path)
    IN  /\ ~crashed
        /\ Len(written.sts) = k
        /\ written.sts[k] = "failed"
        /\ \A t \in Range(written.text) : t # Garbage

\* the name with its last underscore and what follows removed if what
\* follows is a non-empty string of decimal digits, the name otherwise
DigitSuffixDropped(name) ==
  LET u == LastUnderscore(name)
  IN  IF /\ u # 0
         /\ u < Len(name)
         /\ \A j \in (u + 1)..Len(name) : name[j] \in Digits
      THEN SubSeq(name, 1, u - 1)
      ELSE name

\* C17: the name the test-case dumper emits for a symbolic object is the
\* name of the object without its last underscore and what follows if and
\* only if what follows is a non-empty string of decimal digits; otherwise
\* it is the name unchanged.
C17_StripOnlyDigitSuffix ==
  (test.op = "processTestCase" /\ test.success) =>
    /\ Len(test.names) = Len(test.out)
    /\ \A i \in 1..Len(test.out) : test.names[i] = DigitSuffixDropped(test.out[i])

\* C18: when a per-test file does not open, a warning is emitted, the
\* process goes on without a fault, and every other file of the test case
\* is still dealt with.
C18_OpenFailure ==
  (test.op = "processTestCase"
     /\ \E i \in 1..Len(test.files) : test.files[i].st = "null stream") =>
    /\ ~crashed
    /\ "error opening file" \in Range(test.warnings)
    /\ Len(test.files) =
         Len(WritersBeforeHalt(options, DumpCallTraces, test.success,
                               test.errorMessage, test.hasData, FALSE))
           + Len(WritersAfterHalt(options))

\* C19: for every handler, hasMergedStates() holds if and only if some
\* bucket holds a state; no bucket of the map is empty; and
\* hasMergedStates() is false right after the construction of the handler
\* and right after its releaseStates().
C19_HasMergedStates ==
  \A h \in HandlerIds :
    /\ hasMergedStates(h) <=>
         \E mp \in DOMAIN reachedMergeClose[h] : Len(reachedMergeClose[h][mp]) > 0
    /\ \A mp \in DOMAIN reachedMergeClose[h] : reachedMergeClose[h][mp] # <<>>
    /\ (last.h = h /\ last.op \in {"construct", "releaseStates"})
         => ~hasMergedStates(h)

\* a handler has just released the states of its buckets, while another
\* handler holds states in its buckets
C19_Witness ==
  /\ last.op = "releaseStates"
  /\ last.calls # <<>>
  /\ closedStateCount[last.h] > 0
  /\ ~hasMergedStates(last.h)
  /\ \E g \in HandlerIds : hasMergedStates(g)

\* C20: no state occurs twice in the openStates of a handler, also when
\* addOpenState is called with a state that is already open.
C20_OpenStatesDeduplicated ==
  \A h \in HandlerIds : \A i, j \in 1..Len(openStates[h]) :
    i # j => openStates[h][i] # openStates[h][j]

\* C21: among the children of any node of the call tree, no two have tip
\* calls that are eq.
C21_ChildrenDistinct ==
  \A node \in DOMAIN children :
    \A i, j \in 1..Len(children[node]) :
      i # j => ~eq(tip[children[node][i]].call, tip[children[node][j]].call)

\* a node has two children, and two insertions went through the same node
C21_Witness ==
  /\ \E node \in DOMAIN children : Len(children[node]) >= 2
  /\ \E a, b \in inserted :
       /\ a.n # b.n
       /\ \E k \in 1..Len(a.walk) : k <= Len(b.walk) /\ a.walk[k] = b.walk[k]

\* C22: a destroyed handler holds no state in its buckets, and every
\* pauseState call it made for a state has been followed by a continueState
\* call of its own for that state: no state is left paused by it.
C22_DestroyedHandlerPausesNothing ==
  \A h \in destroyed :
    /\ reachedMergeClose[h] = EmptyMap
    /\ \A s \in States : continueCalls[h][s] = pauseCalls[h][s]

\* a handler was just destroyed while two states were paused in its buckets
C22_Witness ==
  /\ last.op = "destroy"
  /\ last.h \in destroyed
  /\ Len(last.calls) >= 2
  /\ \A s \in States : ~Paused(s)

\* closeMean after addClosedState calls with the distances dists, in that
\* order, on a handler with count closed states whose closeMean reads m
RECURSIVE MeanFrom(_, _, _)
MeanFrom(m, dists, count) ==
  IF dists = <<>> THEN m
  ELSE MeanFrom(MeanUpdate(m, Head(dists), count + 1), Tail(dists), count + 1)

\* C23: the mean does not depend on the order of the addClosedState calls:
\* after two calls with the distances d1 then d2, getMean() has the value
\* that the calls in the order d2 then d1 leave on a new handler.
C23_MeanOrderIndependent ==
  \A h \in HandlerIds :
    (last.op = "addClosedState" /\ last.h = h /\ closedStateCount[h] = 2) =>
      LET d2 == getInstrDistance(h, last.stepped[last.es])
          d1 == distanceSum[h] - d2
      IN  \A m \in ReadDouble(Uninitialized) :
            getMean(h) = MeanFrom(m, <<d2, d1>>, 0)

\* C24: once the call prefixes are saved (every file opened, no fault),
\* there is exactly one prefix file for every group of children of every
\* node and no other file (a leaf has none); the history of a file is the
\* sequence of tip calls from the root down to the node whose children it
\* groups, and its tip_calls are the tips of the members of the group, each
\* once, in group order.
C24_OneFilePerGroup ==
  (prefixesSaved /\ ~crashed /\ \A i \in 1..Len(prefixFiles) : prefixFiles[i].opened) =>
    LET Groups(node) == groupChildren(children, tip, node)
        Tips(g) == [k \in 1..Len(g) |-> tip[g[k]]]
    IN  /\ \A node \in DOMAIN children :
             \A gi \in 1..Len(Groups(node)) :
               Cardinality({i \in 1..Len(prefixFiles) :
                              /\ prefixFiles[i].node = node
                              /\ prefixFiles[i].tip_calls = Tips(Groups(node)[gi])}) = 1
        /\ \A i \in 1..Len(prefixFiles) :
             /\ prefixFiles[i].id = i
             /\ prefixFiles[i].complete
             /\ prefixFiles[i].history = CallsTo(prefixFiles[i].node)
             /\ \E gi \in 1..Len(Groups(prefixFiles[i].node)) :
                  prefixFiles[i].tip_calls = Tips(Groups(prefixFiles[i].node)[gi])
             /\ \A k, l \in 1..Len(prefixFiles[i].tip_calls) :
                  k # l => prefixFiles[i].tip_calls[k] # prefixFiles[i].tip_calls[l]
        /\ \A node \in DOMAIN children :
             children[node] = <<>> => \A i \in 1..Len(prefixFiles) : prefixFiles[i].node # node

C24_Witness ==
  /\ prefixesSaved /\ ~crashed
  /\ \E i \in 1..Len(prefixFiles) :
       /\ prefixFiles[i].opened
       /\ prefixFiles[i].history # <<>>
       /\ Len(prefixFiles[i].tip_calls) >= 2
  /\ \E i, j \in 1..Len(prefixFiles) : i # j /\ prefixFiles[i].node # prefixFiles[j].node

\* C25: in an addClosedState step the peers asked to merge are a prefix of
\* the bucket of the close point, in bucket order and each once; a peer
\* that accepts is the last one asked, and if none accepts all were asked;
\* nobody is asked when the close point has no bucket yet; the bucket is
\* left as it was or has the arrival appended, and no other bucket changes.
C25_MergeAttemptsInArrivalOrder ==
  [][\A h \in HandlerIds :
       closedStateCount'[h] = closedStateCount[h] + 1 =>
         LET mp == last'.mp
             es == last'.es
             att == last'.attempts
             had == mp \in DOMAIN reachedMergeClose[h]
             before == IF had THEN reachedMergeClose[h][mp] ELSE <<>>
         IN  /\ last'.op = "addClosedState" /\ last'.h = h
             /\ Len(att) <= Len(before)
             /\ \A i \in 1..Len(att) : att[i] = before[i]
             /\ \A i, j \in 1..Len(att) : i # j => att[i] # att[j]
             /\ \A i \in 1..Len(att) : att[i] \in last'.acc => i = Len(att)
             /\ (\A i \in 1..Len(att) : att[i] \notin last'.acc) => att = before
             /\ ~had => att = <<>>
             /\ reachedMergeClose'[h][mp] \in {before, Append(before, es)}
             /\ \A k \in DOMAIN reachedMergeClose[h] \ {mp} :
                  reachedMergeClose'[h][k] = reachedMergeClose[h][k]
    ]_vars

C25_Witness ==
  /\ last.op = "addClosedState"
  /\ Len(last.attempts) = 1
  /\ last.attempts[1] \in last.acc
  /\ Len(reachedMergeClose[last.h][last.mp]) >= 2
  /\ Terminated(last.es)

\* C26: when every peer in the bucket rejects the arrival, the peers keep
\* their positions and get no pauseState, continueState or terminateState
\* call, the arrival is appended after them and paused, and all of them are
\* alive and paused afterwards.
C26_RejectedArrivalJoinsBucket ==
  [][\A h \in HandlerIds :
       (/\ closedStateCount'[h] = closedStateCount[h] + 1
        /\ last'.mp \in DOMAIN reachedMergeClose[h]
        /\ Range(reachedMergeClose[h][last'.mp]) \cap last'.acc = {}) =>
         LET mp == last'.mp
             es == last'.es
             before == reachedMergeClose[h][mp]
         IN  /\ reachedMergeClose'[h][mp] = Append(before, es)
             /\ last'.calls = << <<"pauseState", es>> >>
             /\ pauseCalls'[h][es] = pauseCalls[h][es] + 1
             /\ \A p \in Range(before) :
                  /\ pauseCalls'[h][p] = pauseCalls[h][p]
                  /\ continueCalls'[h][p] = continueCalls[h][p]
                  /\ terminateCalls'[h][p] = terminateCalls[h][p]
             /\ \A s \in Range(before) \cup {es} :
                  Paused(s)' /\ ~Terminated(s)'
    ]_vars

C26_Witness ==
  /\ last.op = "addClosedState"
  /\ last.attempts # <<>>
  /\ Range(last.attempts) \cap last.acc = {}
  /\ Len(reachedMergeClose[last.h][last.mp]) >= 3
  /\ reachedMergeClose[last.h][last.mp][3] = last.es
  /\ Paused(last.es)

\* the number of occurrences of x in the sequence s
Occurrences(s, x) == Cardinality({i \in 1..Len(s) : s[i] = x})

\* C27: a removeOpenState or addClosedState call on a state that is not in
\* openStates ends the process by the assertion and leaves openStates as
\* it was; on a state that is in openStates it removes exactly one
\* occurrence of it and every other open state keeps its occurrences.
C27_RemoveAssertsPresence ==
  [][last'.op \in {"removeOpenState", "addClosedState"} =>
       LET h == last'.h
           es == last'.es
       IN  /\ \A g \in HandlerIds \ {h} : openStates'[g] = openStates[g]
           /\ IF NotOpen(openStates[h], es)
              THEN crashed' /\ openStates'[h] = openStates[h]
              ELSE /\ ~crashed'
                   /\ Occurrences(openStates'[h], es) = Occurrences(openStates[h], es) - 1
                   /\ \A s \in States \ {es} :
                        Occurrences(openStates'[h], s) = Occurrences(openStates[h], s)
    ]_vars

C27_Witness ==
  /\ crashed
  /\ last.op \in {"removeOpenState", "addClosedState"}
  /\ NotOpen(openStates[last.h], last.es)
  /\ Len(openStates[last.h]) >= 2
  /\ \E s \in States : Occurrences(openStates[last.h], s) = 2

\* C28: the destructor run on a handler that is not in the registry ends
\* the process and leaves every registry entry as it was.
C28_StrayDestroyCaught ==
  [][(last'.op = "destroy" /\ Find(mergeGroups, last'.h) = 0) =>
       crashed' /\ mergeGroups' = mergeGroups]_vars

\* C29: mergeGroups holds every live handler exactly once and nothing
\* else, whatever the order of constructions and destructions; a
\* destructor step removes its own handler from the registry and no other.
C29_RegistryHoldsLiveHandlers ==
  /\ [](/\ \A h \in HandlerIds : Live(h) => Occurrences(mergeGroups, h) = 1
        /\ \A i \in 1..Len(mergeGroups) : Live(mergeGroups[i]))
  /\ [][\A h \in HandlerIds :
          (h \in destroyed' /\ h \notin destroyed) =>
            /\ Range(mergeGroups') = Range(mergeGroups) \ {h}
            /\ Len(mergeGroups') = Len(mergeGroups) - 1
       ]_vars

C29_Witness ==
  /\ destroyed = {1}
  /\ Live(2)
  /\ mergeGroups = <<2>>
  /\ last.op = "destroy"

\* the number of states held in the buckets of handler h
BucketTotal(h) ==
  Cardinality({<<mp, i>> \in (DOMAIN reachedMergeClose[h]) \X States :
                 i <= Len(reachedMergeClose[h][mp])})

\* the number of terminateState calls handler h has made
TerminateTotal(h) == SumOver(terminateCalls[h], States)

\* C30: closedStateCount of a handler goes up by one in every
\* addClosedState step on it, merged-away arrivals included, and is changed
\* by no other step, releaseStates included; as long as the handler has
\* continued no state it equals the number of states in its buckets plus
\* the number of its terminateState calls.
C30_ClosedStateCountCountsCalls ==
  /\ [](\A h \in HandlerIds :
          (\A s \in States : continueCalls[h][s] = 0) =>
            closedStateCount[h] = BucketTotal(h) + TerminateTotal(h))
  /\ [][\A h \in HandlerIds :
          closedStateCount'[h] =
            closedStateCount[h] +
              (IF last' # last /\ last'.op = "addClosedState" /\ last'.h = h
               THEN 1 ELSE 0)
       ]_vars

C30_Witness ==
  /\ last.op = "releaseStates"
  /\ last.calls # <<>>
  /\ closedStateCount[last.h] >= 2
  /\ TerminateTotal(last.h) >= 1
  /\ BucketTotal(last.h) = 0

\* C31: a step keeps every node of the call tree and the children it has,
\* in their order, and gives a node at most one more child, at the end.
C31_ChildrenKeepInsertionOrder ==
  [][\A node \in DOMAIN children :
       /\ node \in DOMAIN children'
       /\ Len(children'[node]) \in {Len(children[node]), Len(children[node]) + 1}
       /\ SubSeq(children'[node], 1, Len(children[node])) = children[node]
    ]_vars

C31_Witness ==
  /\ Cardinality(inserted) = 2
  /\ \E node \in DOMAIN children :
       /\ node # Root
       /\ Len(children[node]) = 2
       /\ tip[children[node][1]].path_id < tip[children[node][2]].path_id

\* C32: a step leaves the tip of every existing node as it is, and the tip
\* of a node it creates holds the call at the node's depth in the inserted
\* path and the path id of that insertion.
C32_TipKeptByLaterInsertions ==
  [][/\ Len(tip') >= Len(tip)
     /\ \A n \in 1..Len(tip) : tip'[n] = tip[n]
     /\ \A n \in (Len(tip) + 1)..Len(tip') :
          /\ tip'[n].path_id = m_callPathIndex
          /\ \A rec \in inserted' \ inserted :
               \E k \in 1..Len(rec.walk) :
                 rec.walk[k] = n /\ tip'[n].call = rec.path[k]
    ]_vars

C32_Witness ==
  /\ DumpCallTraces
  /\ \E a, b \in inserted :
       /\ a.n < b.n
       /\ \E k \in 1..Len(a.walk) :
            /\ k < Len(b.walk)
            /\ a.walk[k] = b.walk[k]
            /\ tip[b.walk[k]].path_id < tip[b.walk[Len(b.walk)]].path_id

\* C38: the paths submitted to the call tree have pairwise different path
\* ids, under every setting of the two options.
C38_PathIdsDistinct ==
  \A a, b \in inserted : a.n # b.n => a.id # b.id

\* the measures of the four escalation steps, in order: the halt flag
\* (requested by SIGINT, whose handler sets it), the debugger-injected
\* halt, a signal that does not kill by force, the force-kill
EscalationOrder ==
  << {"SIGINT"}, {"gdb"}, {"SIGINT", "SIGTERM"}, {"SIGKILL"} >>

\* C33: the measures the watchdog has taken are the first steps of the
\* four-step escalation order, none skipped or reordered; the watchdog has
\* returned 1 once it has killed by force; and a status other than 1 that
\* it has returned is the exit status of the child.
C33_EscalationOrder ==
  /\ Len(measures) <= 4
  /\ \A i \in 1..Len(measures) : measures[i] \in EscalationOrder[i]
  /\ "SIGKILL" \in Range(measures) => returned = 1
  /\ returned \notin {NotReturned, 1} => child = ChildReaped

\* C34: in every handler the open states and the bucketed states are
\* disjoint and every state has at most one place in the buckets; after an
\* addClosedState step the arrival is not among the open states.
C34_OpenAndClosedDisjoint ==
  /\ [](\A h \in HandlerIds :
          /\ Range(openStates[h]) \cap Bucketed(h) = {}
          /\ \A s \in States :
               Cardinality({<<mp, i>> \in (DOMAIN reachedMergeClose[h]) \X States :
                              /\ i <= Len(reachedMergeClose[h][mp])
                              /\ reachedMergeClose[h][mp][i] = s}) <= 1)
  /\ [][\A h \in HandlerIds :
          closedStateCount'[h] = closedStateCount[h] + 1 =>
            last'.es \notin Range(openStates'[h])
       ]_vars

C34_Witness ==
  \E h \in HandlerIds :
    /\ Len(openStates[h]) >= 1
    /\ Cardinality(DOMAIN reachedMergeClose[h]) = 2
    /\ last.op = "addClosedState" /\ last.h = h
    /\ last.es \in Bucketed(h)

\* C35: an addClosedState step at the close point mp leaves the bucket of
\* every other close point as it is, makes no bucket but that of mp, and
\* attempts to merge the arrival only with states of the bucket of mp,
\* never with a state held at another close point.
C35_OnlyOwnBucketTouched ==
  [][\A h \in HandlerIds :
       closedStateCount'[h] = closedStateCount[h] + 1 =>
         LET mp == last'.mp
             rmc == reachedMergeClose[h]
         IN  /\ DOMAIN reachedMergeClose'[h] = DOMAIN rmc \cup {mp}
             /\ \A k \in DOMAIN rmc \ {mp} :
                  /\ reachedMergeClose'[h][k] = rmc[k]
                  /\ Range(last'.attempts) \cap Range(rmc[k]) = {}
             /\ Range(last'.attempts) \subseteq
                  (IF mp \in DOMAIN rmc THEN Range(rmc[mp]) ELSE {})
             /\ \A g \in HandlerIds \ {h} :
                  reachedMergeClose'[g] = reachedMergeClose[g]
    ]_vars

C35_Witness ==
  /\ last.op = "addClosedState"
  /\ last.attempts # <<>>
  /\ \E k \in DOMAIN reachedMergeClose[last.h] :
       k # last.mp /\ reachedMergeClose[last.h][k] # <<>>

\* C36: a getPrioritizeState call on a handler in which no state has been
\* closed returns no state, whatever the open states and their distances.
C36_NoPriorityBeforeFirstClose ==
  (last.op = "getPrioritizeState" /\ closedStateCount[last.h] = 0) =>
    last.ret = NoState

C36_Witness ==
  /\ last.op = "getPrioritizeState"
  /\ closedStateCount[last.h] = 0
  /\ Len(openStates[last.h]) >= 2
  /\ \E s \in Range(openStates[last.h]) :
       s \notin inCloseMerge /\ getInstrDistance(last.h, last.stepped[s]) = 0
  /\ \E s \in Range(openStates[last.h]) :
       s \notin inCloseMerge /\ getInstrDistance(last.h, last.stepped[s]) > 0

\* C37: a releaseStates step, by the interpreter or by the destructor, that
\* follows a releaseStates step on the same handler makes no
\* continueState call; a releaseStates step of the interpreter changes
\* neither openStates nor closedStateCount nor closeMean, and getMean and
\* getPrioritizeState give the same results after it as before.
C37_ReleaseIdempotent ==
  [][/\ (/\ last.op = "releaseStates"
         /\ last'.op \in {"releaseStates", "destroy"}
         /\ last'.h = last.h) => last'.calls = <<>>
     /\ \A h \in HandlerIds :
          (last'.op = "releaseStates" /\ last'.h = h) =>
            /\ openStates' = openStates
            /\ closedStateCount' = closedStateCount
            /\ closeMean' = closeMean
            /\ getMean(h)' = getMean(h)
            /\ \A stepped \in PollReads(h) :
                 getPrioritizeState(h, stepped)' = getPrioritizeState(h, stepped)
    ]_vars

C37_Witness ==
  /\ last.op = "releaseStates"
  /\ last.calls = <<>>
  /\ closedStateCount[last.h] >= 1
  /\ Len(openStates[last.h]) >= 1
  /\ \E s \in States : continueCalls[last.h][s] > 0

\* C39: with StopAfterNTests at its default 0, processTestCase never sets
\* the interpreter's halt flag.
C39_NoHaltWithoutLimit ==
  options.StopAfterNTests = 0 => ~haltExecution

\* C40: a klee_make_symbolic_range call leaves every byte of the object
\* outside the addressed range as it was; with nbytes = 0 and valid
\* pointers it changes no byte, makes no symbolic object, checks no memory
\* access and does not end the state.
C40_OnlyRangeChanges ==
  [][rangeCall'.n = rangeCall.n + 1 =>
       LET start == StartOf(rangeCall'.addr, rangeCall'.offset)
           range == {start + k : k \in 0..(rangeCall'.nbytes - 1)}
       IN  /\ DOMAIN memory' = DOMAIN memory
           /\ \A a \in DOMAIN memory \ range : memory'[a] = memory[a]
           /\ rangeCall'.nbytes = 0 =>
                /\ memory' = memory
                /\ symbolics' = symbolics
                /\ checks' = checks
                /\ (rangeCall'.addr # Null /\ rangeCall'.name # Null) => ~ended'
    ]_vars

C40_Witness ==
  /\ rangeCall.n >= 1
  /\ rangeCall.offset > 0
  /\ rangeCall.nbytes >= 1
  /\ memory[ObjBase] = Concrete
  /\ memory[ObjBase + 1] # Concrete
  /\ memory[ObjBase + ObjSize - 1] = Concrete
  /\ ~ended

============================================================================
